---- MODULE Spec2Model ----
(***************************************************************************)
(* A model of the stream server of aterminal: server/tcp_server.py          *)
(* (ClientHandler, TCPServer), the operator actions of gui/main_window.py   *)
(* that drive it, and the codec of protocols/codec.py that the sessions     *)
(* call.  Every Python thread is a process of the model; a step of the      *)
(* model is a stretch of code between two accesses to state that another    *)
(* thread can see.                                                          *)
(***************************************************************************)
EXTENDS Integers, Sequences, FiniteSets, TLC

(***************************************************************************)
(* Bounds of the model.                                                     *)
(***************************************************************************)
\* number of connections the listening socket hands out
NumSessions == 2
\* number of telemetry chunks delivered to identified sessions, in total
MaxFrames == 2
\* number of operator commands (kick, send command, change of the delays)
MaxOps == 1

(***************************************************************************)
(* Bytes and byte strings.  A byte string is a sequence of 0..255.          *)
(***************************************************************************)
Slice(b, lo, hi) ==
    \* Python b[lo:hi] for 0 <= lo, 0 <= hi
    LET h == IF hi > Len(b) THEN Len(b) ELSE hi
    IN  IF lo >= h THEN << >> ELSE [i \in 1..(h - lo) |-> b[lo + i]]

SliceFrom(b, lo) == Slice(b, lo, Len(b))

RECURSIVE BitXor(_, _)
BitXor(a, b) ==
    IF a = 0 THEN b
    ELSE IF b = 0 THEN a
    ELSE (((a % 2) + (b % 2)) % 2) + 2 * BitXor(a \div 2, b \div 2)

HexDigit == <<"0", "1", "2", "3", "4", "5", "6", "7",
              "8", "9", "a", "b", "c", "d", "e", "f">>

RECURSIVE hexlify(_)
hexlify(b) ==
    \* binascii.hexlify(b).decode(): two lower-case digits per byte
    IF b = << >> THEN ""
    ELSE HexDigit[(b[1] \div 16) + 1] \o HexDigit[((b[1] % 16)) + 1] \o hexlify(Tail(b))

pack_B(n) == << n % 256 >>

pack_I(n) ==
    \* struct.pack('!I', n) for 0 <= n < 2^31
    << ((n \div 16777216) % 256), ((n \div 65536) % 256), ((n \div 256) % 256), (n % 256) >>

unpack_H(b) == b[1] * 256 + b[2]

unpack_h(b) == IF b[1] >= 128 THEN (b[1] - 256) * 256 + b[2] ELSE b[1] * 256 + b[2]

unpack_i(b) ==
    \* struct.unpack('!i', b): signed, big-endian
    (IF b[1] >= 128 THEN b[1] - 256 ELSE b[1]) * 16777216
        + b[2] * 65536 + b[3] * 256 + b[4]

(***************************************************************************)
(* bytes.decode('utf-8'): the code points, or a failure.                    *)
(***************************************************************************)
Cont(x) == x >= 128 /\ x <= 191

Utf8Len(b) ==
    \* length of the well-formed UTF-8 sequence at the head of b, 0 if none
    LET n == Len(b)
        c == b[1]
    IN  IF c < 128 THEN 1
        ELSE IF c >= 194 /\ c <= 223
             THEN IF n >= 2 /\ Cont(b[2]) THEN 2 ELSE 0
        ELSE IF c >= 224 /\ c <= 239
             THEN IF /\ n >= 3
                     /\ Cont(b[2]) /\ Cont(b[3])
                     /\ (c = 224 => b[2] >= 160)
                     /\ (c = 237 => b[2] <= 159)
                  THEN 3 ELSE 0
        ELSE IF c >= 240 /\ c <= 244
             THEN IF /\ n >= 4
                     /\ Cont(b[2]) /\ Cont(b[3]) /\ Cont(b[4])
                     /\ (c = 240 => b[2] >= 144)
                     /\ (c = 244 => b[2] <= 143)
                  THEN 4 ELSE 0
        ELSE 0

Utf8Point(b, k) ==
    \* the code point of the k-byte sequence at the head of b
    IF k = 1 THEN b[1]
    ELSE IF k = 2 THEN (b[1] - 192) * 64 + (b[2] - 128)
    ELSE IF k = 3 THEN (b[1] - 224) * 4096 + (b[2] - 128) * 64 + (b[3] - 128)
    ELSE (b[1] - 240) * 262144 + (b[2] - 128) * 4096 + (b[3] - 128) * 64 + (b[4] - 128)

RECURSIVE Utf8Valid(_)
Utf8Valid(b) ==
    IF b = << >> THEN TRUE
    ELSE LET k == Utf8Len(b) IN k > 0 /\ Utf8Valid(SliceFrom(b, k))

RECURSIVE Utf8Decode(_)
Utf8Decode(b) ==
    \* the text of a byte string for which Utf8Valid holds
    IF b = << >> THEN << >>
    ELSE LET k == Utf8Len(b) IN << Utf8Point(b, k) >> \o Utf8Decode(SliceFrom(b, k))

RECURSIVE Utf8DecodeIgnore(_)
Utf8DecodeIgnore(b) ==
    \* bytes.decode('utf-8', errors='ignore'): ill-formed bytes are dropped
    IF b = << >> THEN << >>
    ELSE LET k == Utf8Len(b)
         IN  IF k = 0 THEN Utf8DecodeIgnore(Tail(b))
             ELSE << Utf8Point(b, k) >> \o Utf8DecodeIgnore(SliceFrom(b, k))

(***************************************************************************)
(* protocols/codec.py                                                       *)
(***************************************************************************)
C12 == 12
CMD5 == 5
poly == 40961

\* a faulty shift: the bit is tested after the shift
crc16_shift_late(crc) ==
    IF ((crc \div 2) % 2) = 1 THEN BitXor(crc \div 2, poly) ELSE crc \div 2

crc16_shift(crc) ==
    \* one pass of the inner loop of crc16: a shift, least significant bit first
    IF (crc % 2) = 1 THEN BitXor(crc \div 2, poly) ELSE crc \div 2

\* In the two loops below the test c >= 0, which always holds, makes TLC
\* evaluate c before it goes on: the depth of the evaluation stays small.
RECURSIVE crc16_bits(_, _)
crc16_bits(crc, n) ==
    \* the inner loop of crc16: n shifts
    IF n = 0 THEN crc
    ELSE LET c == crc16_shift(crc) IN IF c >= 0 THEN crc16_bits(c, n - 1) ELSE c

RECURSIVE crc16_from(_, _, _)
crc16_from(crc, data, i) ==
    \* the outer loop of crc16, from byte i (1-based) of data on
    IF i > Len(data) THEN crc
    ELSE LET c == crc16_bits(BitXor(crc, data[i]), 8)
         IN  IF c >= 0 THEN crc16_from(c, data, i + 1) ELSE c

crc16(data) == crc16_from(0, data, 1)

encode_codec12_command(command) ==
    \* command: the UTF-8 bytes of the command text
    LET data_len == Len(command)
        data_for_crc == pack_B(C12) \o pack_B(1) \o pack_B(CMD5)
                            \o pack_I(data_len) \o command \o pack_B(1)
        full_data_len == Len(data_for_crc)
        crc == crc16(SliceFrom(data_for_crc, 3))
    IN  <<0, 0, 0, 0>> \o pack_I(full_data_len) \o data_for_crc \o pack_I(crc)

(***************************************************************************)
(* json.loads, on the texts the model feeds it: an object whose members     *)
(* are "name":digits pairs.  Any other text is a JSONDecodeError here; the  *)
(* inputs of the model hold no JSON text outside this grammar.              *)
(***************************************************************************)
RECURSIVE json_string_end(_, _)
json_string_end(t, i) ==
    \* t[i] is just after an opening quote: the index after the closing one, 0 if none
    IF i > Len(t) THEN 0
    ELSE IF t[i] = 34 THEN i + 1
    ELSE IF t[i] = 92 \/ t[i] < 32 THEN 0
    ELSE json_string_end(t, i + 1)

RECURSIVE json_digits_end(_, _)
json_digits_end(t, i) ==
    IF i <= Len(t) /\ t[i] >= 48 /\ t[i] <= 57 THEN json_digits_end(t, i + 1) ELSE i

json_number_end(t, i) ==
    \* the index after the number at t[i], 0 if there is none (no leading zeros)
    IF i > Len(t) \/ t[i] < 48 \/ t[i] > 57 THEN 0
    ELSE IF t[i] = 48 THEN i + 1
    ELSE json_digits_end(t, i)

RECURSIVE json_members(_, _)
json_members(t, i) ==
    \* members from t[i] to the closing brace, which ends the text
    IF i > Len(t) \/ t[i] # 34 THEN FALSE
    ELSE LET j == json_string_end(t, i + 1)
         IN  IF j = 0 \/ j > Len(t) \/ t[j] # 58 THEN FALSE
             ELSE LET k == json_number_end(t, j + 1)
                  IN  IF k = 0 \/ k > Len(t) THEN FALSE
                      ELSE IF t[k] = 125 THEN k = Len(t)
                      ELSE IF t[k] = 44 THEN json_members(t, k + 1)
                      ELSE FALSE

json_loads_ok(t) ==
    /\ Len(t) >= 2
    /\ t[1] = 123
    /\ \/ (Len(t) = 2 /\ t[2] = 125)
       \/ json_members(t, 2)

(***************************************************************************)
(* Packet decoding.  A Python exception inside decode_codec8 is the record  *)
(* [exc |-> class]; decode_packet turns it into a parsing_error packet.     *)
(***************************************************************************)
\* the last millisecond datetime.fromtimestamp accepts (year 9999), as '!Q' bytes
MaxTimestamp == <<0, 0, 230, 119, 210, 31, 219, 255>>

RECURSIVE BytesLeq(_, _)
BytesLeq(a, b) ==
    \* a <= b for two big-endian byte strings of one length
    IF a = << >> THEN TRUE
    ELSE IF a[1] # b[1] THEN a[1] < b[1]
    ELSE BytesLeq(Tail(a), Tail(b))

\* a declared length no receive buffer reaches (recv reads at most 4096 bytes)
BeyondBuffer == 1073741824

data_field_length(b) ==
    \* struct.unpack('!I', b)[0]; every value from BeyondBuffer up acts alike
    IF b[1] >= 64 THEN BeyondBuffer
    ELSE b[1] * 16777216 + b[2] * 65536 + b[3] * 256 + b[4]

\* a faulty decoder: no record is decoded
decode_codec8_empty(data) ==
    [type |-> IF data[1] = 142 THEN "Codec 8 Extended" ELSE "Codec 8",
     record_count |-> data[2],
     records |-> << >>]

decode_codec8(data) ==
    IF Len(data) < 2 THEN [exc |-> "IndexError"]
    ELSE
    LET codec_id == data[1]
        num_records == data[2]
        type == IF codec_id = 142 THEN "Codec 8 Extended" ELSE "Codec 8"
    IN  IF num_records = 0
        THEN [type |-> type, record_count |-> num_records, records |-> << >>]
        ELSE IF Len(Slice(data, 2, 10)) # 8 THEN [exc |-> "struct.error"]
        ELSE IF ~BytesLeq(Slice(data, 2, 10), MaxTimestamp) THEN [exc |-> "ValueError"]
        \* the fields after the timestamp: a byte read past the end is an
        \* IndexError, a short slice a struct.error
        ELSE IF Len(data) < 11 THEN [exc |-> "IndexError"]
        ELSE IF Len(data) < 23 THEN [exc |-> "struct.error"]
        ELSE IF Len(data) < 24 THEN [exc |-> "IndexError"]
        ELSE IF Len(data) < 26 THEN [exc |-> "struct.error"]
        ELSE IF Len(data) < 28 THEN [exc |-> "IndexError"]
        ELSE [type |-> type,
              record_count |-> num_records,
              records |-> << [timestamp |-> Slice(data, 2, 10),
                              priority |-> data[11],
                              longitude |-> unpack_i(Slice(data, 11, 15)),
                              latitude |-> unpack_i(Slice(data, 15, 19)),
                              altitude |-> unpack_h(Slice(data, 19, 21)),
                              angle |-> unpack_H(Slice(data, 21, 23)),
                              satellites |-> data[24],
                              speed |-> unpack_H(Slice(data, 24, 26)),
                              event_io_id |-> data[27],
                              total_io_count |-> data[28]] >>]

\* a faulty result: the bytes are left out
parsing_error_bare(e, data) == [type |-> "parsing_error", error |-> e, raw |-> ""]

parsing_error(e, data) == [type |-> "parsing_error", error |-> e, raw |-> hexlify(data)]

\* a faulty comparison: only the low 16 bits of the received value count
crc_differs_low(received_crc, calculated_crc) ==
    SliceFrom(received_crc, 2) # SliceFrom(pack_I(calculated_crc), 2)

crc_differs(received_crc, calculated_crc) ==
    \* received_crc: the four bytes '!I' unpacks
    received_crc # pack_I(calculated_crc)

decode_binary(data) ==
    IF Len(Slice(data, 0, 4)) # 4 \/ Len(Slice(data, 4, 8)) # 4
    THEN parsing_error("struct.error", data)
    ELSE IF Slice(data, 0, 4) # <<0, 0, 0, 0>>
    THEN [type |-> "unknown", error |-> "Invalid preamble"]
    ELSE
    LET L == data_field_length(Slice(data, 4, 8))
        crc_data == Slice(data, 8, 8 + L)
        received_crc == SliceFrom(data, 8 + L)
        calculated_crc == crc16(crc_data)
    IN  IF Len(received_crc) # 4 THEN parsing_error("struct.error", data)
        ELSE IF crc_differs(received_crc, calculated_crc)
        THEN [type |-> "corrupt", got |-> received_crc, calculated |-> calculated_crc]
        ELSE IF crc_data = << >> THEN parsing_error("IndexError", data)
        ELSE LET codec_id == crc_data[1]
             IN  IF codec_id = 8 \/ codec_id = 142
                 THEN LET r == decode_codec8(crc_data)
                      IN  IF "exc" \in DOMAIN r THEN parsing_error(r.exc, data) ELSE r
                 ELSE IF codec_id = 12
                 THEN [type |-> "Codec 12 Response",
                       data |-> Utf8DecodeIgnore(Slice(crc_data, 5, Len(crc_data) - 1))]
                 ELSE IF codec_id = 17
                 THEN [type |-> "Codec 17 Response", data |-> "Decoding not fully implemented"]
                 ELSE [type |-> "Codec " \o ToString(codec_id), data |-> hexlify(crc_data)]

\* a faulty decoder: the bytes that follow the first frame are left for later
decode_packet_first(data) ==
    IF Len(data) >= 8 /\ Slice(data, 0, 4) = <<0, 0, 0, 0>>
    THEN decode_binary(Slice(data, 0, 12 + data_field_length(Slice(data, 4, 8))))
    ELSE decode_binary(data)

decode_packet(data) ==
    IF data # << >> /\ data[1] = 123 /\ data[Len(data)] = 125
    THEN IF ~Utf8Valid(data) THEN parsing_error("UnicodeDecodeError", data)
         ELSE IF json_loads_ok(Utf8Decode(data))
              THEN [type |-> "JSON", data |-> Utf8Decode(data)]
              ELSE decode_binary(data)
    ELSE decode_binary(data)

(***************************************************************************)
(* The inputs of the model: the chunks a device sends, the identifiers the  *)
(* operator names, the delay settings the operator saves.                   *)
(***************************************************************************)
\* "123456789012345" and "356307042441013"
IMEI_A == <<49, 50, 51, 52, 53, 54, 55, 56, 57, 48, 49, 50, 51, 52, 53>>
IMEI_B == <<51, 53, 54, 51, 48, 55, 48, 52, 50, 52, 52, 49, 48, 49, 51>>
Imeis == {IMEI_A, IMEI_B}

IdentityChunk(id) == <<0, 15>> \o id

\* a Codec 8 frame, one record (latitude 37.7749, longitude -122.4194), valid CRC
AvlChunk == <<0, 0, 0, 0, 0, 0, 0, 33, 8, 1, 0, 0, 1, 116, 135, 110, 128, 0, 1,
              183, 8, 72, 48, 22, 131, 254, 8, 0, 10, 0, 90, 7, 0, 50, 0, 0, 0,
              0, 0, 0, 1, 0, 0, 176, 117>>

\* The chunks a device may send, by name; the state holds the names.
Chunk ==
    [ id_a |-> IdentityChunk(IMEI_A),
      id_b |-> IdentityChunk(IMEI_B),
      \* 16 bytes: one short of an identity
      short_id |-> Slice(IdentityChunk(IMEI_A), 0, 16),
      \* 0x00 0x0E where 0x00 0x0F is due
      bad_prefix |-> <<0, 14>> \o IMEI_A,
      \* an identity whose 15 bytes are no UTF-8 text
      bad_utf8 |-> <<0, 15>> \o [i \in 1..15 |-> 255],
      avl |-> AvlChunk,
      \* AvlChunk declaring two records where it carries one, valid CRC
      avl2 |-> [AvlChunk EXCEPT ![10] = 2, ![41] = 2, ![44] = 5, ![45] = 53],
      \* AvlChunk as Codec 8 Extended, valid CRC
      avl_ext |-> [AvlChunk EXCEPT ![9] = 142, ![44] = 71, ![45] = 28],
      \* AvlChunk with bit 2 of byte 20 flipped
      corrupt |-> [AvlChunk EXCEPT ![21] = 12],
      \* {"a":1}
      json |-> <<123, 34, 97, 34, 58, 49, 125>>,
      \* a Codec 12 response carrying "OK"
      echo |-> <<0, 0, 0, 0, 0, 0, 0, 10, 12, 1, 6, 0, 0, 0, 2, 79, 75, 1, 0, 0, 218, 138>>,
      \* five bytes: no complete header
      truncated |-> <<0, 0, 0, 0, 0>>,
      \* a frame of codec 16, valid CRC
      codec16 |-> <<0, 0, 0, 0, 0, 0, 0, 3, 16, 1, 2, 0, 0, 148, 129>>,
      \* 18 bytes: an identity and one byte more
      long_a |-> IdentityChunk(IMEI_A) \o <<0>>,
      long_b |-> IdentityChunk(IMEI_B) \o <<0>>,
      long_utf8 |-> <<0, 15>> \o [i \in 1..16 |-> 255],
      \* an identity and an AVL frame in one chunk
      id_avl |-> IdentityChunk(IMEI_A) \o AvlChunk,
      \* two AVL frames in one chunk
      avl_avl |-> AvlChunk \o AvlChunk,
      \* one AVL frame in two chunks
      avl_head |-> Slice(AvlChunk, 0, 20),
      avl_tail |-> SliceFrom(AvlChunk, 20) ]

\* what a device may send first
FirstChunks == {"id_a", "id_b", "short_id", "bad_prefix", "bad_utf8"}

\* what a device may send later
TelemetryChunks ==
    {"avl", "avl2", "avl_ext", "corrupt", "json", "echo", "truncated", "codec16", "id_a"}

\* decode_packet of the chunks a device may send later
Decoded ==
    [ id_a |-> decode_packet(Chunk.id_a),
      avl |-> decode_packet(Chunk.avl),
      avl2 |-> decode_packet(Chunk.avl2),
      avl_ext |-> decode_packet(Chunk.avl_ext),
      corrupt |-> decode_packet(Chunk.corrupt),
      json |-> decode_packet(Chunk.json),
      echo |-> decode_packet(Chunk.echo),
      truncated |-> decode_packet(Chunk.truncated),
      codec16 |-> decode_packet(Chunk.codec16) ]

\* the command texts the operator sends: "getinfo"
Commands == { <<103, 101, 116, 105, 110, 102, 111>> }

DelayValues == {0, 1}
DebugSettings == [delay_imei_ack : DelayValues, delay_record_ack : DelayValues]
NoDelays == [delay_imei_ack |-> 0, delay_record_ack |-> 0]

\* The runs explored.  In the first, NumSessions devices connect with
\* identifiers that may coincide and the operator kicks; in the second, one
\* device fewer sends chunks of every kind; in the third, it sends AVL frames
\* while the operator kicks, sends commands and changes the delays.  Each run
\* carries what decode_packet makes of the chunks.
Environments ==
    { [sessions |-> NumSessions,
       first |-> [s \in 1..NumSessions |-> IF s = 1 THEN {"id_a"} ELSE {"id_a", "id_b"}],
       chunks |-> {"avl"},
       frames |-> MaxFrames - 2,
       ops |-> MaxOps,
       operator |-> {"kick"},
       loud |-> FALSE,
       settings |-> {},
       decoded |-> Decoded],
      [sessions |-> NumSessions - 1,
       first |-> [s \in 1..NumSessions |-> FirstChunks],
       chunks |-> TelemetryChunks,
       frames |-> MaxFrames,
       ops |-> MaxOps - 1,
       operator |-> {},
       loud |-> TRUE,
       settings |-> {},
       decoded |-> Decoded],
      [sessions |-> NumSessions - 1,
       first |-> [s \in 1..NumSessions |-> {"id_a"}],
       chunks |-> {"avl"},
       frames |-> MaxFrames - 1,
       ops |-> MaxOps,
       operator |-> {"kick", "send", "debug"},
       loud |-> TRUE,
       settings |-> DebugSettings \ {NoDelays},
       decoded |-> Decoded] }

(***************************************************************************)
(* The threads: one per session, the thread of the operator's window, the   *)
(* thread of the server.                                                    *)
(***************************************************************************)
Sessions == 1..NumSessions
GUI == NumSessions + 1
SRV == NumSessions + 2
Threads == 1..(NumSessions + 2)
\* no handler; no identifier is the empty text
None == 0
NoImei == << >>

LogKinds ==
    { "new_connection", "delay_imei_ack", "invalid_first_packet", "delay_record_ack",
      "error_handling_client", "connection_closed", "failed_to_start", "starting_server",
      "server_loop_error", "server_stopped", "could_not_kick", "kicking",
      "could_not_send" }

level(kind) ==
    \* the severity each message is emitted with
    CASE kind \in {"new_connection", "connection_closed", "starting_server",
                   "server_stopped"} -> "info"
      [] kind \in {"delay_imei_ack", "invalid_first_packet", "delay_record_ack",
                   "kicking"} -> "warn"
      [] OTHER -> "error"

VARIABLES
    \* the environment of a run: how many devices connect, what they send and
    \* how much, what the operator does
    env,
    \* TCPServer
    srv_pc,            \* where the server thread is in TCPServer.run
    srv_is_running,    \* TCPServer.is_running
    sock,              \* the listening socket: "none", "listening", "closed"
    srv_snapshot,      \* run: list(self.client_handlers.values()), as it was made
    srv_todo,          \* run: the handlers the final loop has still to stop
    client_handlers,   \* the dict, as the sequence of its items in insertion order
    client_lock,       \* the thread that holds client_lock, or None
    srv_debug,         \* TCPServer.debug_settings
    \* ClientHandler, per session
    pc,                \* where the session thread is in ClientHandler.run
    imei,              \* ClientHandler.imei
    is_running,        \* ClientHandler.is_running
    connection,        \* the transport: "none", "open" or "closed" (by this end)
    sess_debug,        \* ClientHandler.debug_settings
    num_records,       \* run: the count to acknowledge
    \* ClientHandler.stop, per calling thread
    stop_pc,           \* where the caller is in stop
    stop_of,           \* the handler whose stop it runs
    unregistered,      \* unregister_client: the local of that name
    \* MainWindow
    gui_pc,            \* what the operator's thread is doing
    gui_handler,       \* send_command_to_device: handler
    gui_debug,         \* MainWindow.debug_settings
    device_list,       \* the identifiers shown in the device list
    \* what happened so far
    commands,          \* the operator's commands: [op, imei, handler found, raised]
    superseded,        \* the handlers whose entry another handler overwrote
    rx,                \* per session: the chunks it received
    sent,              \* per session: the byte strings written to its transport
    connected,         \* per session: device_connected events for it
    disconnected,      \* per session: device_disconnected events for it
    data_events,       \* per session: its data_received events
    log,               \* the messages: per origin (0: server) and kind, how many
    \* protocols/codec.py called on its own
    call,              \* [fn, arg, ret]: the function, its argument, what it returned
    \* UDPServer
    udp_pc,            \* where the server thread is in UDPServer.run
    udp_is_running,    \* UDPServer.is_running
    udp_sock,          \* UDPServer.sock: "none", "bound", "closed"
    clients,           \* the dict, as the sequence of its items in insertion order
    udp_gui_pc,        \* where the operator's thread is in send_command_to_device
    send_imei,         \* send_command_to_device: imei
    items_used,        \* the size of clients when the iteration over its items began
    items_pos,         \* the items the iteration has yielded
    target_addr,       \* send_command_to_device: target_addr
    udp_commands,      \* the calls of send_command_to_device: [imei, outcome]
    udp_rx,            \* the datagrams received: [addr, data]
    udp_sent,          \* the datagrams sent: [addr, data]
    udp_connected,     \* the device_connected events: <<imei, ip>>
    udp_data,          \* the data_received events
    udp_log            \* the messages: [kind, level, error]

srv_vars == <<srv_pc, srv_is_running, sock, srv_snapshot, srv_todo, srv_debug>>
reg_vars == <<client_handlers, client_lock, superseded>>
sess_vars == <<pc, imei, is_running, connection, sess_debug, num_records>>
stop_vars == <<stop_pc, stop_of, unregistered>>
gui_vars == <<gui_pc, gui_handler, gui_debug, commands>>
event_vars == <<device_list, rx, sent, connected, disconnected, data_events, log>>
udp_vars == <<udp_pc, udp_is_running, udp_sock, clients, udp_gui_pc, send_imei,
              items_used, items_pos, target_addr, udp_commands, udp_rx, udp_sent,
              udp_connected, udp_data, udp_log>>
vars == <<env, call, udp_vars, srv_vars, reg_vars, sess_vars, stop_vars, gui_vars,
          event_vars>>

(***************************************************************************)
(* The dict client_handlers.                                                *)
(***************************************************************************)
Keys(d) == {d[i].imei : i \in 1..Len(d)}

Has(d, k) == k \in Keys(d)

Get(d, k) == d[CHOOSE i \in 1..Len(d) : d[i].imei = k].handler

\* a faulty assignment: a present key keeps its handler
Put_absent(d, k, h) ==
    IF Has(d, k) THEN d ELSE Append(d, [imei |-> k, handler |-> h])

Put(d, k, h) ==
    \* d[k] = h: a present key keeps its place, a new one goes last
    IF Has(d, k)
    THEN [i \in 1..Len(d) |-> IF d[i].imei = k THEN [imei |-> k, handler |-> h] ELSE d[i]]
    ELSE Append(d, [imei |-> k, handler |-> h])

\* a faulty del: the dict is cleared
Del_all(d, k) == << >>

Del(d, k) == SelectSeq(d, LAMBDA e : e.imei # k)

\* a faulty values(): the last item is left out
Values_but_last(d) == [i \in 1..(Len(d) - 1) |-> d[i].handler]

Values(d) == [i \in 1..Len(d) |-> d[i].handler]

Logged(l, who, kind) == [l EXCEPT ![who][kind] = @ + 1]

\* the telemetry chunks delivered so far, in total
Delivered ==
    LET RECURSIVE Sum(_)
        Sum(n) == IF n = 0 THEN 0 ELSE Len(data_events[n]) + Sum(n - 1)
    IN  Sum(NumSessions)

(***************************************************************************)
(* The state after MainWindow.__init__: no server yet.  The sessions are    *)
(* the ClientHandler objects the server will create, in order of accept.    *)
(***************************************************************************)
\* no function of the codec is called on its own
NoCall == [fn |-> "none"]

\* no address; a non-empty tuple, as every address, is true where Python tests it
NoAddr == << >>

\* the state after UDPServer.__init__
UDPServerInit ==
    /\ udp_pc = "none"
    /\ udp_is_running = FALSE
    /\ udp_sock = "none"
    /\ clients = << >>
    /\ udp_gui_pc = "idle"
    /\ send_imei = NoImei
    /\ items_used = 0
    /\ items_pos = 0
    /\ target_addr = NoAddr
    /\ udp_commands = << >>
    /\ udp_rx = << >>
    /\ udp_sent = << >>
    /\ udp_connected = << >>
    /\ udp_data = << >>
    /\ udp_log = << >>

\* the servers, the sessions and the operator's window before anything runs
ServerInit ==
    /\ UDPServerInit
    /\ srv_pc = "none"
    /\ srv_is_running = FALSE
    /\ sock = "none"
    /\ srv_snapshot = << >>
    /\ srv_todo = << >>
    /\ client_handlers = << >>
    /\ client_lock = None
    /\ superseded = {}
    /\ gui_debug = NoDelays
    /\ srv_debug = NoDelays
    /\ pc = [s \in Sessions |-> "unborn"]
    /\ imei = [s \in Sessions |-> NoImei]
    /\ is_running = [s \in Sessions |-> FALSE]
    /\ connection = [s \in Sessions |-> "none"]
    /\ sess_debug = [s \in Sessions |-> NoDelays]
    /\ num_records = [s \in Sessions |-> 0]
    /\ stop_pc = [t \in Threads |-> "idle"]
    /\ stop_of = [t \in Threads |-> None]
    /\ unregistered = [t \in Threads |-> FALSE]
    /\ gui_pc = "idle"
    /\ gui_handler = None
    /\ device_list = {}
    /\ commands = << >>
    /\ rx = [s \in Sessions |-> << >>]
    /\ sent = [s \in Sessions |-> << >>]
    /\ connected = [s \in Sessions |-> 0]
    /\ disconnected = [s \in Sessions |-> 0]
    /\ data_events = [s \in Sessions |-> << >>]
    /\ log = [who \in 0..NumSessions |-> [kind \in LogKinds |-> 0]]

Init ==
    /\ env \in Environments
    /\ call = NoCall
    /\ ServerInit

\* QThread.isRunning() of the server thread
isRunning == srv_pc \notin {"none", "aborted", "finished"}

(***************************************************************************)
(* TCPServer.run                                                            *)
(***************************************************************************)
\* MainWindow.start_server: the server object is made and its thread started
start_server ==
    /\ gui_pc = "idle"
    /\ srv_pc = "none"
    /\ srv_pc' = "starting"
    /\ srv_debug' = gui_debug
    /\ UNCHANGED <<env, call, udp_vars, srv_is_running, sock, srv_snapshot, srv_todo,
                   reg_vars, sess_vars, stop_vars, gui_vars, event_vars>>

\* run: self.is_running = True
run_begin ==
    /\ srv_pc = "starting"
    /\ srv_is_running' = TRUE
    /\ srv_pc' = "setup"
    /\ UNCHANGED <<env, call, udp_vars, sock, srv_snapshot, srv_todo, srv_debug,
                   reg_vars, sess_vars, stop_vars, gui_vars, event_vars>>

\* run: socket, TLS context, bind, listen all succeed
run_setup_ok ==
    /\ srv_pc = "setup"
    /\ sock' = "listening"
    /\ log' = Logged(log, 0, "starting_server")
    /\ srv_pc' = "loop"
    /\ UNCHANGED <<env, call, udp_vars, srv_is_running, srv_snapshot, srv_todo,
                   srv_debug, reg_vars, sess_vars, stop_vars, gui_vars, device_list, rx,
                   sent, connected, disconnected, data_events>>

\* a faulty handler: the failure is logged and the flag is left set
run_setup_fails_flag ==
    /\ srv_pc = "setup"
    /\ log' = Logged(log, 0, "failed_to_start")
    /\ srv_pc' = "aborted"
    /\ UNCHANGED <<env, call, udp_vars, srv_is_running, sock, srv_snapshot, srv_todo,
                   srv_debug, reg_vars, sess_vars, stop_vars, gui_vars, device_list, rx,
                   sent, connected, disconnected, data_events>>

\* run: one of them raises
run_setup_fails ==
    /\ srv_pc = "setup"
    /\ log' = Logged(log, 0, "failed_to_start")
    /\ srv_is_running' = FALSE
    /\ srv_pc' = "aborted"
    /\ UNCHANGED <<env, call, udp_vars, sock, srv_snapshot, srv_todo, srv_debug,
                   reg_vars, sess_vars, stop_vars, gui_vars, device_list, rx, sent,
                   connected, disconnected, data_events>>

\* a faulty loop: while True
run_loop_forever ==
    /\ srv_pc = "loop"
    /\ srv_pc' = "accept"
    /\ UNCHANGED <<env, call, udp_vars, srv_is_running, sock, srv_snapshot, srv_todo,
                   srv_debug, reg_vars, sess_vars, stop_vars, gui_vars, event_vars>>

\* run: while self.is_running
run_loop ==
    /\ srv_pc = "loop"
    /\ srv_pc' = IF srv_is_running THEN "accept" ELSE "snapshot"
    /\ UNCHANGED <<env, call, udp_vars, srv_is_running, sock, srv_snapshot, srv_todo,
                   srv_debug, reg_vars, sess_vars, stop_vars, gui_vars, event_vars>>

\* the next connection is for session s
IsNext(s) ==
    /\ s <= env.sessions
    /\ pc[s] = "unborn"
    /\ \A r \in Sessions : r < s => pc[r] # "unborn"

\* run: accept returns a connection; ClientHandler(conn, addr, self).start()
run_accept(s) ==
    /\ srv_pc = "accept"
    /\ IsNext(s)
    /\ pc' = [pc EXCEPT ![s] = "start"]
    /\ is_running' = [is_running EXCEPT ![s] = TRUE]
    /\ connection' = [connection EXCEPT ![s] = "open"]
    /\ sess_debug' = [sess_debug EXCEPT ![s] = srv_debug]
    /\ srv_pc' = "loop"
    /\ UNCHANGED <<env, call, udp_vars, srv_is_running, sock, srv_snapshot, srv_todo,
                   srv_debug, reg_vars, imei, num_records, stop_vars, gui_vars,
                   event_vars>>

\* run: accept times out after its one second
run_accept_timeout ==
    /\ srv_pc = "accept"
    /\ srv_pc' = "loop"
    /\ UNCHANGED <<env, call, udp_vars, srv_is_running, sock, srv_snapshot, srv_todo,
                   srv_debug, reg_vars, sess_vars, stop_vars, gui_vars, event_vars>>

\* a faulty handler: the error ends the loop
run_accept_raises_fatal(s) ==
    /\ srv_pc = "accept"
    /\ IsNext(s)
    /\ pc' = [pc EXCEPT ![s] = "refused"]
    /\ log' = IF srv_is_running THEN Logged(log, 0, "server_loop_error") ELSE log
    /\ srv_is_running' = FALSE
    /\ srv_pc' = "loop"
    /\ UNCHANGED <<env, call, udp_vars, sock, srv_snapshot, srv_todo, srv_debug,
                   reg_vars, imei, is_running, connection, sess_debug, num_records,
                   stop_vars, gui_vars, device_list, rx, sent, connected, disconnected,
                   data_events>>

\* run: accept raises for an incoming connection (a failed TLS handshake, say)
run_accept_raises(s) ==
    /\ srv_pc = "accept"
    /\ IsNext(s)
    /\ pc' = [pc EXCEPT ![s] = "refused"]
    /\ log' = IF srv_is_running THEN Logged(log, 0, "server_loop_error") ELSE log
    /\ srv_pc' = "loop"
    /\ UNCHANGED <<env, call, udp_vars, srv_is_running, sock, srv_snapshot, srv_todo,
                   srv_debug, reg_vars, imei, is_running, connection, sess_debug,
                   num_records, stop_vars, gui_vars, device_list, rx, sent, connected,
                   disconnected, data_events>>

\* run: list(self.client_handlers.values())
run_snapshot ==
    /\ srv_pc = "snapshot"
    /\ srv_snapshot' = Values(client_handlers)
    /\ srv_todo' = Values(client_handlers)
    /\ srv_pc' = "stopping"
    /\ UNCHANGED <<env, call, udp_vars, srv_is_running, sock, srv_debug, reg_vars,
                   sess_vars, stop_vars, gui_vars, event_vars>>

\* run: handler.stop() for the next handler of the list
run_stop_next ==
    /\ srv_pc = "stopping"
    /\ stop_pc[SRV] = "idle"
    /\ srv_todo # << >>
    /\ stop_pc' = [stop_pc EXCEPT ![SRV] = "check"]
    /\ stop_of' = [stop_of EXCEPT ![SRV] = Head(srv_todo)]
    /\ srv_todo' = Tail(srv_todo)
    /\ UNCHANGED <<env, call, udp_vars, srv_pc, srv_is_running, sock, srv_snapshot,
                   srv_debug, reg_vars, sess_vars, unregistered, gui_vars, event_vars>>

\* run: self.sock.close()
run_close ==
    /\ srv_pc = "stopping"
    /\ stop_pc[SRV] = "idle"
    /\ srv_todo = << >>
    /\ sock' = "closed"
    /\ srv_pc' = "closed"
    /\ UNCHANGED <<env, call, udp_vars, srv_is_running, srv_snapshot, srv_todo,
                   srv_debug, reg_vars, sess_vars, stop_vars, gui_vars, event_vars>>

\* run: "Server stopped."
run_report ==
    /\ srv_pc = "closed"
    /\ log' = Logged(log, 0, "server_stopped")
    /\ srv_pc' = "finished"
    /\ UNCHANGED <<env, call, udp_vars, srv_is_running, sock, srv_snapshot, srv_todo,
                   srv_debug, reg_vars, sess_vars, stop_vars, gui_vars, device_list, rx,
                   sent, connected, disconnected, data_events>>

(***************************************************************************)
(* ClientHandler.run                                                        *)
(***************************************************************************)
\* a faulty test: every chunk is taken for the first
awaits_identity_always(id) == TRUE

\* run, line 34: if not self.imei
awaits_identity(id) == id = NoImei

\* faulty tests of the first chunk: 17 bytes are not enough; 16 bytes are enough
is_identity_longer(data) == Len(data) > 17 /\ Slice(data, 0, 2) = <<0, 15>>

is_identity_shorter(data) == Len(data) >= 16 /\ Slice(data, 0, 2) = <<0, 15>>

\* run, line 35: the test of the first chunk
is_identity(data) == Len(data) >= 17 /\ Slice(data, 0, 2) = <<0, 15>>

\* a faulty test: Codec 8 Extended is not taken for AVL data
is_avl_standard(decoded_data) == decoded_data.type = "Codec 8"

\* run, line 50: the decoded packet is AVL data
is_avl(decoded_data) == decoded_data.type \in {"Codec 8", "Codec 8 Extended"}

\* a faulty emit: a chunk that does not decode gives rise to no event
data_received_valid(id, data, decoded_data) ==
    IF decoded_data.type \in {"corrupt", "parsing_error"}
    THEN << >>
    ELSE << [imei |-> id, raw |-> data, decoded |-> decoded_data] >>

\* run, line 48: the data_received events a chunk gives rise to
data_received(id, data, decoded_data) ==
    << [imei |-> id, raw |-> data, decoded |-> decoded_data] >>

\* the end of the while loop: self.stop() is called next
Break(s) ==
    /\ pc' = [pc EXCEPT ![s] = "stopping"]
    /\ stop_pc' = [stop_pc EXCEPT ![s] = "check"]
    /\ stop_of' = [stop_of EXCEPT ![s] = s]

\* run: the log message of a new connection
run_start(s) ==
    /\ pc[s] = "start"
    /\ log' = Logged(log, s, "new_connection")
    /\ pc' = [pc EXCEPT ![s] = "loop"]
    /\ UNCHANGED <<env, call, udp_vars, srv_vars, reg_vars, imei, is_running,
                   connection, sess_debug, num_records, stop_vars, gui_vars,
                   device_list, rx, sent, connected, disconnected, data_events>>

\* run: while self.is_running
run_while(s) ==
    /\ pc[s] = "loop"
    /\ IF is_running[s]
       THEN pc' = [pc EXCEPT ![s] = "recv"] /\ UNCHANGED <<stop_pc, stop_of>>
       ELSE Break(s)
    /\ UNCHANGED <<env, call, udp_vars, srv_vars, reg_vars, imei, is_running,
                   connection, sess_debug, num_records, unregistered, gui_vars,
                   event_vars>>

\* run: recv returns a chunk to a session that has no identifier
recv_first(s, chunk) ==
    /\ pc[s] = "recv"
    /\ connection[s] = "open"
    /\ awaits_identity(imei[s])
    /\ chunk \in env.first[s]
    /\ Len(rx[s]) <= env.frames
    /\ rx' = [rx EXCEPT ![s] = Append(@, chunk)]
    /\ LET data == Chunk[chunk]
       IN  IF is_identity(data)
           THEN IF Utf8Valid(Slice(data, 2, 17))
                THEN /\ imei' = [imei EXCEPT ![s] = Utf8Decode(Slice(data, 2, 17))]
                     /\ pc' = [pc EXCEPT ![s] = "register"]
                     /\ UNCHANGED <<stop_pc, stop_of, log>>
                ELSE \* UnicodeDecodeError: except Exception
                     /\ log' = Logged(log, s, "error_handling_client")
                     /\ Break(s)
                     /\ UNCHANGED imei
           ELSE /\ log' = Logged(log, s, "invalid_first_packet")
                /\ Break(s)
                /\ UNCHANGED imei
    /\ UNCHANGED <<env, call, udp_vars, srv_vars, reg_vars, is_running, connection,
                   sess_debug, num_records, unregistered, gui_vars, device_list, sent,
                   connected, disconnected, data_events>>

\* a faulty loop: a chunk that does not decode is logged as an error and ends
\* the session
recv_telemetry_strict(s, chunk) ==
    /\ pc[s] = "recv"
    /\ connection[s] = "open"
    /\ ~awaits_identity(imei[s])
    /\ chunk \in env.chunks
    /\ Delivered < env.frames
    /\ rx' = [rx EXCEPT ![s] = Append(@, chunk)]
    /\ LET decoded_data == env.decoded[chunk]
       IN  IF decoded_data.type \in {"corrupt", "parsing_error"}
           THEN /\ log' = Logged(log, s, "error_handling_client")
                /\ Break(s)
                /\ UNCHANGED <<data_events, num_records>>
           ELSE /\ data_events' = [data_events EXCEPT
                                     ![s] = @ \o data_received(imei[s], chunk, decoded_data)]
                /\ UNCHANGED <<stop_pc, stop_of, log>>
                /\ IF is_avl(decoded_data)
                   THEN /\ num_records' = [num_records EXCEPT
                                             ![s] = decoded_data.record_count]
                        /\ pc' = [pc EXCEPT ![s] = "ack_record"]
                   ELSE /\ pc' = [pc EXCEPT ![s] = "loop"]
                        /\ UNCHANGED num_records
    /\ UNCHANGED <<env, call, udp_vars, srv_vars, reg_vars, imei, is_running,
                   connection, sess_debug, unregistered, gui_vars, device_list, sent,
                   connected, disconnected>>

\* run: recv returns a chunk to a session that has its identifier
recv_telemetry(s, chunk) ==
    /\ pc[s] = "recv"
    /\ connection[s] = "open"
    /\ ~awaits_identity(imei[s])
    /\ chunk \in env.chunks
    /\ Delivered < env.frames
    /\ rx' = [rx EXCEPT ![s] = Append(@, chunk)]
    /\ LET decoded_data == env.decoded[chunk]
       IN  /\ data_events' = [data_events EXCEPT
                                ![s] = @ \o data_received(imei[s], chunk, decoded_data)]
           /\ IF is_avl(decoded_data)
              THEN /\ num_records' = [num_records EXCEPT ![s] = decoded_data.record_count]
                   /\ pc' = [pc EXCEPT ![s] = "ack_record"]
              ELSE /\ pc' = [pc EXCEPT ![s] = "loop"]
                   /\ UNCHANGED num_records
    /\ UNCHANGED <<env, call, udp_vars, srv_vars, reg_vars, imei, is_running,
                   connection, sess_debug, stop_vars, gui_vars, device_list, sent,
                   connected, disconnected, log>>

\* run: recv returns b'' (the peer closed, or this end was shut down)
recv_eof(s) ==
    /\ pc[s] = "recv"
    /\ Break(s)
    /\ UNCHANGED <<env, call, udp_vars, srv_vars, reg_vars, imei, is_running,
                   connection, sess_debug, num_records, unregistered, gui_vars,
                   event_vars>>

\* a faulty handler: a reset is logged like any other exception
recv_reset_loud(s) ==
    /\ pc[s] = "recv"
    /\ log' = Logged(log, s, "error_handling_client")
    /\ Break(s)
    /\ UNCHANGED <<env, call, udp_vars, srv_vars, reg_vars, imei, is_running,
                   connection, sess_debug, num_records, unregistered, gui_vars,
                   device_list, rx, sent, connected, disconnected, data_events>>

\* run: recv raises ConnectionResetError, BrokenPipeError or ssl.SSLEOFError
recv_reset(s) ==
    /\ pc[s] = "recv"
    /\ Break(s)
    /\ UNCHANGED <<env, call, udp_vars, srv_vars, reg_vars, imei, is_running,
                   connection, sess_debug, num_records, unregistered, gui_vars,
                   event_vars>>

\* run: recv raises ssl.SSLWantReadError
recv_want_read(s) ==
    /\ pc[s] = "recv"
    /\ connection[s] = "open"
    /\ pc' = [pc EXCEPT ![s] = "loop"]
    /\ UNCHANGED <<env, call, udp_vars, srv_vars, reg_vars, imei, is_running,
                   connection, sess_debug, num_records, stop_vars, gui_vars,
                   event_vars>>

\* run: recv raises another exception (a closed descriptor, a timeout)
recv_raises(s) ==
    /\ pc[s] = "recv"
    /\ env.loud
    /\ log' = Logged(log, s, "error_handling_client")
    /\ Break(s)
    /\ UNCHANGED <<env, call, udp_vars, srv_vars, reg_vars, imei, is_running,
                   connection, sess_debug, num_records, unregistered, gui_vars,
                   device_list, rx, sent, connected, disconnected, data_events>>

(***************************************************************************)
(* TCPServer.register_client and the acknowledgments of ClientHandler.run   *)
(***************************************************************************)
\* the handlers whose entry a later register_client has overwritten
Overwritten(handlers, id, handler) ==
    IF Has(handlers, id) /\ Get(handlers, id) # handler THEN {Get(handlers, id)} ELSE {}

\* register_client: the with block
register_client(s) ==
    /\ pc[s] = "register"
    /\ client_lock = None
    /\ client_handlers' = Put(client_handlers, imei[s], s)
    /\ superseded' = superseded \cup Overwritten(client_handlers, imei[s], s)
    /\ pc' = [pc EXCEPT ![s] = "connected"]
    /\ UNCHANGED <<env, call, udp_vars, srv_vars, client_lock, imei, is_running,
                   connection, sess_debug, num_records, stop_vars, gui_vars,
                   event_vars>>

\* register_client: self.device_connected.emit(imei, handler.address[0]);
\* MainWindow.add_device_to_list
register_client_emit(s) ==
    /\ pc[s] = "connected"
    /\ connected' = [connected EXCEPT ![s] = @ + 1]
    /\ device_list' = device_list \cup {imei[s]}
    /\ pc' = [pc EXCEPT ![s] = "ack_imei"]
    /\ UNCHANGED <<env, call, udp_vars, srv_vars, reg_vars, imei, is_running,
                   connection, sess_debug, num_records, stop_vars, gui_vars, rx, sent,
                   disconnected, data_events, log>>

\* the delay message, when the session's settings ask for a delay
Delayed(l, s, field) == IF sess_debug[s][field] > 0 THEN Logged(l, s, field) ELSE l

\* run, line 42: the bytes that acknowledge the identifier
imei_ack == <<1>>

\* run, line 56: the bytes that acknowledge num_records records
record_ack(num) == pack_I(num)

\* run: (delay,) self.connection.send(b'\x01')
ack_imei(s) ==
    /\ pc[s] = "ack_imei"
    /\ connection[s] = "open"
    /\ log' = Delayed(log, s, "delay_imei_ack")
    /\ sent' = [sent EXCEPT ![s] = Append(@, imei_ack)]
    /\ pc' = [pc EXCEPT ![s] = "loop"]
    /\ UNCHANGED <<env, call, udp_vars, srv_vars, reg_vars, imei, is_running,
                   connection, sess_debug, num_records, stop_vars, gui_vars,
                   device_list, rx, connected, disconnected, data_events>>

\* run: (delay,) struct.pack('!I', num_records), self.connection.send(response)
ack_record(s) ==
    /\ pc[s] = "ack_record"
    /\ connection[s] = "open"
    /\ log' = Delayed(log, s, "delay_record_ack")
    /\ sent' = [sent EXCEPT ![s] = Append(@, record_ack(num_records[s]))]
    /\ num_records' = [num_records EXCEPT ![s] = 0]
    /\ pc' = [pc EXCEPT ![s] = "loop"]
    /\ UNCHANGED <<env, call, udp_vars, srv_vars, reg_vars, imei, is_running,
                   connection, sess_debug, stop_vars, gui_vars, device_list, rx,
                   connected, disconnected, data_events>>

\* run: the send of an acknowledgment raises; loud: not one of the exceptions
\* of line 59
ack_raises(s, loud) ==
    /\ pc[s] \in {"ack_imei", "ack_record"}
    /\ loud => env.loud
    /\ LET field == IF pc[s] = "ack_imei" THEN "delay_imei_ack" ELSE "delay_record_ack"
           l == Delayed(log, s, field)
       IN  log' = IF loud THEN Logged(l, s, "error_handling_client") ELSE l
    /\ num_records' = [num_records EXCEPT ![s] = 0]
    /\ Break(s)
    /\ UNCHANGED <<env, call, udp_vars, srv_vars, reg_vars, imei, is_running,
                   connection, sess_debug, unregistered, gui_vars, device_list, rx,
                   sent, connected, disconnected, data_events>>

(***************************************************************************)
(* ClientHandler.stop, run by thread t for the handler stop_of[t]: by the   *)
(* session's own thread after its loop, by the operator's thread in         *)
(* kick_device, by the server thread in the last loop of TCPServer.run.     *)
(***************************************************************************)
\* the return of stop to its caller
Return(t) ==
    /\ stop_pc' = [stop_pc EXCEPT ![t] = "idle"]
    /\ stop_of' = [stop_of EXCEPT ![t] = None]
    /\ unregistered' = [unregistered EXCEPT ![t] = FALSE]
    /\ pc' = IF t \in Sessions THEN [pc EXCEPT ![t] = "done"] ELSE pc
    /\ gui_pc' = IF t = GUI THEN "idle" ELSE gui_pc
    /\ gui_handler' = IF t = GUI THEN None ELSE gui_handler

\* stop: if not self.is_running: return
stop_check(t) ==
    /\ stop_pc[t] = "check"
    /\ IF is_running[stop_of[t]]
       THEN /\ stop_pc' = [stop_pc EXCEPT ![t] = "clear"]
            /\ UNCHANGED <<pc, gui_pc, gui_handler, stop_of, unregistered>>
       ELSE Return(t)
    /\ UNCHANGED <<env, call, udp_vars, srv_vars, reg_vars, imei, is_running,
                   connection, sess_debug, num_records, gui_debug, commands,
                   event_vars>>

\* stop: self.is_running = False; if self.imei:
stop_clear(t) ==
    /\ stop_pc[t] = "clear"
    /\ is_running' = [is_running EXCEPT ![stop_of[t]] = FALSE]
    /\ stop_pc' = [stop_pc EXCEPT
                     ![t] = IF imei[stop_of[t]] # NoImei THEN "unregister" ELSE "close"]
    /\ UNCHANGED <<env, call, udp_vars, srv_vars, reg_vars, pc, imei, connection,
                   sess_debug, num_records, stop_of, unregistered, gui_vars,
                   event_vars>>

\* a faulty test: the handler that holds the entry is not compared
is_registered_any(handlers, id, handler_to_unregister) == Has(handlers, id)

\* a faulty test: no entry is ever found
is_registered_never(handlers, id, handler_to_unregister) == FALSE

\* unregister_client, line 159: the entry may be deleted
is_registered(handlers, id, handler_to_unregister) ==
    Has(handlers, id) /\ Get(handlers, id) = handler_to_unregister

\* unregister_client: the with block
unregister_client(t) ==
    /\ stop_pc[t] = "unregister"
    /\ client_lock = None
    /\ LET h == stop_of[t]
           found == is_registered(client_handlers, imei[h], h)
       IN  /\ client_handlers' = IF found THEN Del(client_handlers, imei[h])
                                 ELSE client_handlers
           /\ unregistered' = [unregistered EXCEPT ![t] = found]
    /\ stop_pc' = [stop_pc EXCEPT ![t] = "emit"]
    /\ UNCHANGED <<env, call, udp_vars, srv_vars, client_lock, superseded, sess_vars,
                   stop_of, gui_vars, event_vars>>

\* faulty tests: the event is never emitted; the event is always emitted
emits_never(was_unregistered) == FALSE

emits_always(was_unregistered) == TRUE

\* unregister_client, line 163: the event is emitted
emits_disconnected(was_unregistered) == was_unregistered

\* unregister_client: if unregistered: self.device_disconnected.emit(imei);
\* MainWindow.remove_device_from_list
unregister_client_emit(t) ==
    /\ stop_pc[t] = "emit"
    /\ LET h == stop_of[t]
       IN  IF emits_disconnected(unregistered[t])
           THEN /\ disconnected' = [disconnected EXCEPT ![h] = @ + 1]
                /\ device_list' = device_list \ {imei[h]}
           ELSE UNCHANGED <<disconnected, device_list>>
    /\ stop_pc' = [stop_pc EXCEPT ![t] = "close"]
    /\ UNCHANGED <<env, call, udp_vars, srv_vars, reg_vars, sess_vars, stop_of,
                   unregistered, gui_vars, rx, sent, connected, data_events, log>>

\* stop: the log message, shutdown (OSError swallowed), close
stop_close(t) ==
    /\ stop_pc[t] = "close"
    /\ log' = Logged(log, stop_of[t], "connection_closed")
    /\ connection' = [connection EXCEPT ![stop_of[t]] = "closed"]
    /\ Return(t)
    /\ UNCHANGED <<env, call, udp_vars, srv_vars, reg_vars, imei, is_running,
                   sess_debug, num_records, gui_debug, commands, device_list, rx, sent,
                   connected, disconnected, data_events>>

(***************************************************************************)
(* The operator: MainWindow calls into the server on its own thread.        *)
(***************************************************************************)
\* one call of the operator, as it is recorded in commands
Command(op, id, handler) == [op |-> op, imei |-> id, handler |-> handler, raised |-> FALSE]

\* may the operator issue one more command, of the kind op
MayCommand(op) == gui_pc = "idle" /\ Len(commands) < env.ops /\ op \in env.operator

\* kick_device: the with block when the identifier is in the dict, then the
\* log message and the call of handler_to_kick.stop()
kick_device_found(id) ==
    /\ MayCommand("kick")
    /\ isRunning
    /\ client_lock = None
    /\ Has(client_handlers, id)
    /\ gui_handler' = Get(client_handlers, id)
    /\ log' = Logged(log, 0, "kicking")
    /\ stop_pc' = [stop_pc EXCEPT ![GUI] = "check"]
    /\ stop_of' = [stop_of EXCEPT ![GUI] = Get(client_handlers, id)]
    /\ gui_pc' = "kick"
    /\ commands' = Append(commands, Command("kick", id, Get(client_handlers, id)))
    /\ UNCHANGED <<env, call, udp_vars, srv_vars, reg_vars, sess_vars, unregistered,
                   gui_debug, device_list, rx, sent, connected, disconnected,
                   data_events>>

\* a faulty branch: the identifier is not in the dict and nothing is logged
kick_device_silent(id) ==
    /\ MayCommand("kick")
    /\ isRunning
    /\ client_lock = None
    /\ ~Has(client_handlers, id)
    /\ commands' = Append(commands, Command("kick", id, None))
    /\ UNCHANGED <<env, call, udp_vars, srv_vars, reg_vars, sess_vars, stop_vars,
                   gui_pc, gui_handler, gui_debug, event_vars>>

\* kick_device: the with block when the identifier is not in the dict
kick_device_not_found(id) ==
    /\ MayCommand("kick")
    /\ isRunning
    /\ client_lock = None
    /\ ~Has(client_handlers, id)
    /\ log' = Logged(log, 0, "could_not_kick")
    /\ commands' = Append(commands, Command("kick", id, None))
    /\ UNCHANGED <<env, call, udp_vars, srv_vars, reg_vars, sess_vars, stop_vars,
                   gui_pc, gui_handler, gui_debug, device_list, rx, sent, connected,
                   disconnected, data_events>>

\* send_command_to_device: the lock is taken, the identifier is in the dict
send_command_found(id) ==
    /\ MayCommand("send")
    /\ isRunning
    /\ client_lock = None
    /\ Has(client_handlers, id)
    /\ client_lock' = GUI
    /\ gui_handler' = Get(client_handlers, id)
    /\ gui_pc' = "send"
    /\ commands' = Append(commands, Command("send", id, Get(client_handlers, id)))
    /\ UNCHANGED <<env, call, udp_vars, srv_vars, client_handlers, superseded,
                   sess_vars, stop_vars, gui_debug, event_vars>>

\* a faulty branch: the identifier is not in the dict and nothing is logged
send_command_silent(id) ==
    /\ MayCommand("send")
    /\ isRunning
    /\ client_lock = None
    /\ ~Has(client_handlers, id)
    /\ commands' = Append(commands, Command("send", id, None))
    /\ UNCHANGED <<env, call, udp_vars, srv_vars, reg_vars, sess_vars, stop_vars,
                   gui_pc, gui_handler, gui_debug, event_vars>>

\* send_command_to_device: the identifier is not in the dict
send_command_not_found(id) ==
    /\ MayCommand("send")
    /\ isRunning
    /\ client_lock = None
    /\ ~Has(client_handlers, id)
    /\ log' = Logged(log, 0, "could_not_send")
    /\ commands' = Append(commands, Command("send", id, None))
    /\ UNCHANGED <<env, call, udp_vars, srv_vars, reg_vars, sess_vars, stop_vars,
                   gui_pc, gui_handler, gui_debug, device_list, rx, sent, connected,
                   disconnected, data_events>>

\* a faulty send_command: the packet is written whether the handler runs or not
send_command_always(command_str) ==
    /\ gui_pc = "send"
    /\ connection[gui_handler] = "open"
    /\ sent' = [sent EXCEPT
                  ![gui_handler] = Append(@, encode_codec12_command(command_str))]
    /\ client_lock' = None
    /\ gui_pc' = "idle"
    /\ gui_handler' = None
    /\ UNCHANGED <<env, call, udp_vars, srv_vars, client_handlers, superseded,
                   sess_vars, stop_vars, gui_debug, commands, device_list, rx,
                   connected, disconnected, data_events, log>>

\* ClientHandler.send_command under the lock: the packet is written, or the
\* handler is no longer running
send_command(command_str) ==
    /\ gui_pc = "send"
    /\ IF is_running[gui_handler]
       THEN /\ connection[gui_handler] = "open"
            /\ sent' = [sent EXCEPT
                          ![gui_handler] = Append(@, encode_codec12_command(command_str))]
       ELSE UNCHANGED sent
    /\ client_lock' = None
    /\ gui_pc' = "idle"
    /\ gui_handler' = None
    /\ UNCHANGED <<env, call, udp_vars, srv_vars, client_handlers, superseded,
                   sess_vars, stop_vars, gui_debug, commands, device_list, rx,
                   connected, disconnected, data_events, log>>

\* a faulty exit: the exception leaves send_command_to_device with the lock held
send_command_raises_locked ==
    /\ gui_pc = "send"
    /\ is_running[gui_handler]
    /\ commands' = [commands EXCEPT ![Len(commands)].raised = TRUE]
    /\ gui_pc' = "idle"
    /\ gui_handler' = None
    /\ UNCHANGED <<env, call, udp_vars, srv_vars, reg_vars, sess_vars, stop_vars,
                   gui_debug, event_vars>>

\* ClientHandler.send_command under the lock: connection.send raises; the with
\* statement releases the lock and the exception reaches the caller
send_command_raises ==
    /\ gui_pc = "send"
    /\ is_running[gui_handler]
    /\ commands' = [commands EXCEPT ![Len(commands)].raised = TRUE]
    /\ client_lock' = None
    /\ gui_pc' = "idle"
    /\ gui_handler' = None
    /\ UNCHANGED <<env, call, udp_vars, srv_vars, client_handlers, superseded,
                   sess_vars, stop_vars, gui_debug, event_vars>>

\* open_debug_settings: the dialog is accepted with the settings d
open_debug_settings(d) ==
    /\ MayCommand("debug")
    /\ d \in env.settings
    /\ commands' = Append(commands, Command("debug", NoImei, None))
    /\ gui_debug' = d
    /\ srv_debug' = IF isRunning THEN d ELSE srv_debug
    /\ UNCHANGED <<env, call, udp_vars, srv_pc, srv_is_running, sock, srv_snapshot,
                   srv_todo, reg_vars, sess_vars, stop_vars, gui_pc, gui_handler,
                   event_vars>>

\* stop_server, TCPServer.stop: self.is_running = False, then self.wait()
stop_server ==
    /\ gui_pc = "idle"
    /\ isRunning
    /\ srv_is_running' = FALSE
    /\ gui_pc' = "wait"
    /\ UNCHANGED <<env, call, udp_vars, srv_pc, sock, srv_snapshot, srv_todo, srv_debug,
                   reg_vars, sess_vars, stop_vars, gui_handler, gui_debug, commands,
                   event_vars>>

\* TCPServer.stop: self.wait() returns, the server thread has ended
stop_server_returns ==
    /\ gui_pc = "wait"
    /\ ~isRunning
    /\ gui_pc' = "stopped"
    /\ UNCHANGED <<env, call, udp_vars, srv_vars, reg_vars, sess_vars, stop_vars,
                   gui_handler, gui_debug, commands, event_vars>>

(***************************************************************************)
(* The specification.                                                       *)
(***************************************************************************)
Next ==
    \/ start_server
    \/ run_begin
    \/ run_setup_ok
    \/ run_setup_fails
    \/ run_loop
    \/ \E s \in Sessions : run_accept(s)
    \/ run_accept_timeout
    \/ \E s \in Sessions : run_accept_raises(s)
    \/ run_snapshot
    \/ run_stop_next
    \/ run_close
    \/ run_report
    \/ \E s \in Sessions : run_start(s)
    \/ \E s \in Sessions : run_while(s)
    \/ \E s \in Sessions, chunk \in FirstChunks : recv_first(s, chunk)
    \/ \E s \in Sessions, chunk \in TelemetryChunks : recv_telemetry(s, chunk)
    \/ \E s \in Sessions : recv_eof(s)
    \/ \E s \in Sessions : recv_reset(s)
    \/ \E s \in Sessions : recv_want_read(s)
    \/ \E s \in Sessions : recv_raises(s)
    \/ \E s \in Sessions : register_client(s)
    \/ \E s \in Sessions : register_client_emit(s)
    \/ \E s \in Sessions : ack_imei(s)
    \/ \E s \in Sessions : ack_record(s)
    \/ \E s \in Sessions, loud \in BOOLEAN : ack_raises(s, loud)
    \/ \E t \in Threads : stop_check(t)
    \/ \E t \in Threads : stop_clear(t)
    \/ \E t \in Threads : unregister_client(t)
    \/ \E t \in Threads : unregister_client_emit(t)
    \/ \E t \in Threads : stop_close(t)
    \/ \E id \in Imeis : kick_device_found(id)
    \/ \E id \in Imeis : kick_device_not_found(id)
    \/ \E id \in Imeis : send_command_found(id)
    \/ \E id \in Imeis : send_command_not_found(id)
    \/ \E command_str \in Commands : send_command(command_str)
    \/ send_command_raises
    \/ \E d \in DebugSettings : open_debug_settings(d)
    \/ stop_server
    \/ stop_server_returns

Spec == Init /\ [][Next]_vars

(***************************************************************************)
(* protocols/codec.py called on its own: one function, one argument drawn   *)
(* from the sets below, and what the function returns.                      *)
(***************************************************************************)
\* the longest byte string drawn over a small alphabet
MaxLen == 3

Strings(alphabet) == UNION { [1..n -> alphabet] : n \in 0..MaxLen }

\* The byte strings crc16 is called on: the short ones over four bytes, every
\* single byte, "123456789", the data field of AvlChunk.
CrcInputs ==
    Strings({0, 1, 128, 255})
        \cup { <<b>> : b \in 0..255 }
        \cup { <<49, 50, 51, 52, 53, 54, 55, 56, 57>>, Slice(AvlChunk, 8, 41) }

\* The command texts encode_codec12_command is called on, as UTF-8 bytes: the
\* short ones over "g", "e", "t", " ", and those the operator sends.
EncodeInputs == Strings({103, 101, 116, 32}) \cup Commands

\* The buffers decode_packet is called on, each with how it was made: a frame
\* with a valid CRC, one with one bit of its data field or of its CRC field
\* flipped, one cut short or extended, one with another preamble (whole or
\* cut short), for every codec byte a frame of three data bytes with a valid
\* CRC, and short texts in braces.
DecodeInputs ==
    LET Bits == {1, 2, 4, 8, 16, 32, 64, 128}
        FlipBit(b, i, bit) == [b EXCEPT ![i] = BitXor(b[i], bit)]
    IN  UNION { LET b == Chunk[f]
                    L == Len(b) - 12
                    other == [b EXCEPT ![1] = 1]
                IN  { [how |-> "valid", of |-> f, arg |-> b],
                      [how |-> "extended", of |-> f, arg |-> b \o <<0>>] }
                    \cup { [how |-> "data_flip", of |-> f, arg |-> FlipBit(b, i, bit)] :
                               i \in 9..(8 + L), bit \in Bits }
                    \cup { [how |-> "crc_flip", of |-> f, arg |-> FlipBit(b, i, bit)] :
                               i \in (9 + L)..Len(b), bit \in Bits }
                    \cup { [how |-> "cut", of |-> f, arg |-> Slice(b, 0, n)] :
                               n \in 0..(Len(b) - 1) }
                    \cup { [how |-> "preamble", of |-> f, arg |-> Slice(other, 0, n)] :
                               n \in 1..Len(b) }
                : f \in {"avl", "echo", "codec16"} }
        \cup { LET data == <<codec_id, 0, 0>>
                IN  [how |-> "codec", of |-> "none",
                     arg |-> <<0, 0, 0, 0, 0, 0, 0, 3>> \o data \o pack_I(crc16(data))] :
                 codec_id \in 0..255 }
        \cup { [how |-> "text", of |-> "json", arg |-> t] :
                 t \in { <<123, 125>>, Chunk.json, <<123, 120, 125>>, <<123, 255, 125>>,
                         Slice(Chunk.json, 0, 6) } }

\* The data fields decode_codec8 is called on, each with how it was made: the
\* codec byte 0x08 or 0x8E, a declared count, and the bytes of the record of
\* AvlChunk, whole or cut short ("codec8") or with a timestamp of the year
\* 10000 and later ("late").
Codec8Inputs ==
    LET record == Slice(AvlChunk, 10, 41)
        late == [i \in 1..Len(record) |-> IF i <= 8 THEN 255 ELSE record[i]]
    IN  { [how |-> "codec8", arg |-> <<codec_id, count>> \o Slice(record, 0, n)] :
              codec_id \in {8, 142}, count \in {0, 1, 2, 5, 255},
              n \in 0..Len(record) }
        \cup { [how |-> "late", arg |-> <<codec_id, count>> \o late] :
                  codec_id \in {8, 142}, count \in {0, 1, 2} }

\* a data field in its frame: zero preamble, length, data, CRC
Framed(data) == <<0, 0, 0, 0>> \o pack_I(Len(data)) \o data \o pack_I(crc16(data))

\* no server runs while the codec is called on its own
NoRun ==
    [sessions |-> 0, first |-> [s \in 1..NumSessions |-> {}], chunks |-> {}, frames |-> 0,
     ops |-> 0, operator |-> {}, loud |-> FALSE, settings |-> {}, decoded |-> << >>]

InitCodec ==
    /\ env = NoRun
    /\ ServerInit
    /\ \/ \E data \in CrcInputs : call = [fn |-> "crc16", arg |-> data]
       \/ \E command \in EncodeInputs :
             call = [fn |-> "encode_codec12_command", arg |-> command]
       \/ \E d \in DecodeInputs :
             call = [fn |-> "decode_packet", arg |-> d.arg, how |-> d.how, of |-> d.of]
       \/ \E d \in Codec8Inputs :
             \/ call = [fn |-> "decode_codec8", arg |-> d.arg, how |-> d.how, of |-> "avl"]
             \/ call = [fn |-> "decode_packet", arg |-> Framed(d.arg), how |-> d.how,
                        of |-> "avl"]

Returned == "ret" \in DOMAIN call
Returns(value) ==
    /\ ~Returned
    /\ call' = [x \in DOMAIN call \cup {"ret"} |-> IF x = "ret" THEN value ELSE call[x]]
    /\ UNCHANGED <<env, udp_vars, srv_vars, reg_vars, sess_vars, stop_vars, gui_vars,
                   event_vars>>

call_crc16 == call.fn = "crc16" /\ Returns(crc16(call.arg))

call_encode_codec12_command ==
    call.fn = "encode_codec12_command" /\ Returns(encode_codec12_command(call.arg))

call_decode_packet == call.fn = "decode_packet" /\ Returns(decode_packet(call.arg))

\* what decode_codec8 returns, or [exc |-> the exception it raises]
call_decode_codec8 == call.fn = "decode_codec8" /\ Returns(decode_codec8(call.arg))

NextCodec ==
    \/ call_crc16
    \/ call_encode_codec12_command
    \/ call_decode_packet
    \/ call_decode_codec8

SpecCodec == InitCodec /\ [][NextCodec]_vars

(***************************************************************************)
(* Devices that connect under one identifier while the operator sends a     *)
(* command: the handshakes, the ends of the sessions and the sends in any   *)
(* order, with no telemetry.                                                *)
(***************************************************************************)
Reconnect ==
    [sessions |-> NumSessions,
     first |-> [s \in 1..NumSessions |-> {"id_a"}],
     chunks |-> {},
     frames |-> MaxFrames - 2,
     ops |-> MaxOps,
     operator |-> {"send"},
     loud |-> FALSE,
     settings |-> {},
     decoded |-> Decoded]

InitReconnect ==
    /\ env = Reconnect
    /\ call = NoCall
    /\ ServerInit

NextReconnect ==
    \/ start_server
    \/ run_begin
    \/ run_setup_ok
    \/ run_setup_fails
    \/ run_loop
    \/ \E s \in Sessions : run_accept(s)
    \/ run_accept_timeout
    \/ \E s \in Sessions : run_accept_raises(s)
    \/ run_snapshot
    \/ run_stop_next
    \/ run_close
    \/ run_report
    \/ \E s \in Sessions : run_start(s)
    \/ \E s \in Sessions : run_while(s)
    \/ \E s \in Sessions, chunk \in FirstChunks : recv_first(s, chunk)
    \/ \E s \in Sessions : recv_eof(s)
    \/ \E s \in Sessions : recv_reset(s)
    \/ \E s \in Sessions : recv_want_read(s)
    \/ \E s \in Sessions : register_client(s)
    \/ \E s \in Sessions : register_client_emit(s)
    \/ \E s \in Sessions : ack_imei(s)
    \/ \E s \in Sessions, loud \in BOOLEAN : ack_raises(s, loud)
    \/ \E t \in Threads : stop_check(t)
    \/ \E t \in Threads : stop_clear(t)
    \/ \E t \in Threads : unregister_client(t)
    \/ \E t \in Threads : unregister_client_emit(t)
    \/ \E t \in Threads : stop_close(t)
    \/ \E id \in Imeis : send_command_found(id)
    \/ \E id \in Imeis : send_command_not_found(id)
    \/ \E command_str \in Commands : send_command(command_str)
    \/ send_command_raises
    \/ stop_server
    \/ stop_server_returns

SpecReconnect == InitReconnect /\ [][NextReconnect]_vars

(***************************************************************************)
(* The server thread under a fair scheduler: a device connects, the         *)
(* operator may send a command, and stops the server.  The thread of the    *)
(* server takes its next step when it can; accept returns, with a           *)
(* connection or on its timeout of one second.                              *)
(***************************************************************************)
Shutdown ==
    [sessions |-> NumSessions - 1,
     first |-> [s \in 1..NumSessions |-> {"id_a"}],
     chunks |-> {},
     frames |-> MaxFrames - 2,
     ops |-> MaxOps,
     operator |-> {"send"},
     loud |-> FALSE,
     settings |-> {},
     decoded |-> Decoded]

InitShutdown ==
    /\ env = Shutdown
    /\ call = NoCall
    /\ ServerInit

\* the steps of TCPServer.run from its loop on, handler.stop() included
FairServer ==
    /\ WF_vars(run_loop)
    /\ WF_vars(run_accept_timeout)
    /\ WF_vars(run_snapshot)
    /\ WF_vars(run_stop_next)
    /\ WF_vars(stop_check(SRV))
    /\ WF_vars(stop_clear(SRV))
    /\ WF_vars(unregister_client(SRV))
    /\ WF_vars(unregister_client_emit(SRV))
    /\ WF_vars(stop_close(SRV))
    /\ WF_vars(run_close)
    /\ WF_vars(run_report)

SpecShutdown == InitShutdown /\ [][NextReconnect]_vars /\ FairServer

(***************************************************************************)
(* server/udp_server.py: a UDPServer constructed and started on its own,    *)
(* its receive loop in the server thread, send_command_to_device and stop   *)
(* in the thread of the operator's window.                                  *)
(***************************************************************************)
\* the most datagrams the socket delivers
MaxDatagrams == 2

\* the names the imports of udp_server.py bind
udp_server_names ==
    {"socket", "QThread", "Signal", "config", "decode_packet", "encode_codec12_command"}

\* "10.0.0.1" and "10.0.0.2"
IP_1 == <<49, 48, 46, 48, 46, 48, 46, 49>>
IP_2 == <<49, 48, 46, 48, 46, 48, 46, 50>>

\* the addresses datagrams come from: (ip, port)
Addresses == { <<IP_1, 5000>>, <<IP_1, 5001>>, <<IP_2, 5000>> }

\* f"Unknown@{addr[0]}"
Unknown(addr) == <<85, 110, 107, 110, 111, 119, 110, 64>> \o addr[1]

\* addr in self.clients
Mapped(d, addr) == \E i \in 1..Len(d) : d[i].addr = addr

\* self.clients.get(addr, default)
GetOr(d, addr, default) ==
    IF Mapped(d, addr)
    THEN d[CHOOSE i \in 1..Len(d) : d[i].addr = addr].imei
    ELSE default

\* devices at the three addresses send identities of 17 and of 18 bytes and
\* AVL frames, and the operator sends a command
Datagram ==
    [sessions |-> 0,
     first |-> [s \in 1..NumSessions |-> {}],
     chunks |-> {"id_a", "long_a", "long_b", "long_utf8", "avl", "avl_ext", "corrupt"},
     frames |-> MaxDatagrams,
     ops |-> MaxOps,
     operator |-> {"send"},
     loud |-> FALSE,
     settings |-> {},
     decoded |-> Decoded]

InitUdp ==
    /\ env = Datagram
    /\ call = NoCall
    /\ ServerInit

\* log_message.emit(message, level)
Message(kind, lvl, e) == [kind |-> kind, level |-> lvl, error |-> e]

\* run, lines 63-65: except Exception as e
LoopError(e) ==
    IF udp_is_running
    THEN Append(udp_log, Message("udp_loop_error", "error", e))
    ELSE udp_log

\* QThread.isRunning() of the server thread
udp_isRunning == udp_pc \notin {"none", "aborted", "finished"}

\* QThread.start()
udp_start ==
    /\ udp_pc = "none"
    /\ udp_gui_pc = "idle"
    /\ udp_pc' = "starting"
    /\ UNCHANGED <<env, call, udp_is_running, udp_sock, clients, udp_gui_pc, send_imei,
                   items_used, items_pos, target_addr, udp_commands, udp_rx, udp_sent,
                   udp_connected, udp_data, udp_log, srv_vars, reg_vars, sess_vars,
                   stop_vars, gui_vars, event_vars>>

\* run: the log message, self.is_running = True
udp_run_begin ==
    /\ udp_pc = "starting"
    /\ udp_log' = Append(udp_log, Message("starting_udp_server", "info", ""))
    /\ udp_is_running' = TRUE
    /\ udp_pc' = "setup"
    /\ UNCHANGED <<env, call, udp_sock, clients, udp_gui_pc, send_imei, items_used,
                   items_pos, target_addr, udp_commands, udp_rx, udp_sent, udp_connected,
                   udp_data, srv_vars, reg_vars, sess_vars, stop_vars, gui_vars,
                   event_vars>>

\* run: socket, bind, settimeout succeed
udp_run_setup_ok ==
    /\ udp_pc = "setup"
    /\ udp_sock' = "bound"
    /\ udp_pc' = "loop"
    /\ UNCHANGED <<env, call, udp_is_running, clients, udp_gui_pc, send_imei, items_used,
                   items_pos, target_addr, udp_commands, udp_rx, udp_sent, udp_connected,
                   udp_data, udp_log, srv_vars, reg_vars, sess_vars, stop_vars, gui_vars,
                   event_vars>>

\* run: one of them raises; the flag stays as it is
udp_run_setup_fails ==
    /\ udp_pc = "setup"
    /\ udp_log' = Append(udp_log, Message("failed_to_start_udp", "error", "OSError"))
    /\ udp_pc' = "aborted"
    /\ UNCHANGED <<env, call, udp_is_running, udp_sock, clients, udp_gui_pc, send_imei,
                   items_used, items_pos, target_addr, udp_commands, udp_rx, udp_sent,
                   udp_connected, udp_data, srv_vars, reg_vars, sess_vars, stop_vars,
                   gui_vars, event_vars>>

\* run: while self.is_running
udp_run_loop ==
    /\ udp_pc = "loop"
    /\ udp_pc' = IF udp_is_running THEN "recvfrom" ELSE "close"
    /\ UNCHANGED <<env, call, udp_is_running, udp_sock, clients, udp_gui_pc, send_imei,
                   items_used, items_pos, target_addr, udp_commands, udp_rx, udp_sent,
                   udp_connected, udp_data, udp_log, srv_vars, reg_vars, sess_vars,
                   stop_vars, gui_vars, event_vars>>

\* run: recvfrom times out after its one second
udp_run_timeout ==
    /\ udp_pc = "recvfrom"
    /\ udp_pc' = "loop"
    /\ UNCHANGED <<env, call, udp_is_running, udp_sock, clients, udp_gui_pc, send_imei,
                   items_used, items_pos, target_addr, udp_commands, udp_rx, udp_sent,
                   udp_connected, udp_data, udp_log, srv_vars, reg_vars, sess_vars,
                   stop_vars, gui_vars, event_vars>>

\* run, line 43: the test for a packet that carries the identifier
is_imei_packet(data) == Len(data) > 17 /\ Slice(data, 0, 2) = <<0, 15>>

\* the socket delivers the datagram data from addr
Recvfrom(addr, chunk) ==
    /\ udp_pc = "recvfrom"
    /\ chunk \in env.chunks
    /\ Len(udp_rx) < env.frames
    /\ udp_rx' = Append(udp_rx, [addr |-> addr, data |-> chunk])
    /\ udp_pc' = "loop"

\* run, lines 43-49: recvfrom returns a packet that carries the identifier
udp_run_imei(addr, chunk) ==
    /\ Recvfrom(addr, chunk)
    /\ is_imei_packet(Chunk[chunk])
    /\ LET data == Chunk[chunk]
       IN  IF Utf8Valid(Slice(data, 2, 17))
           THEN LET imei_ == Utf8Decode(Slice(data, 2, 17))
                IN  /\ IF Mapped(clients, addr)
                       THEN UNCHANGED <<clients, udp_connected>>
                       ELSE /\ clients' = Append(clients, [addr |-> addr, imei |-> imei_])
                            /\ udp_connected' = Append(udp_connected, <<imei_, addr[1]>>)
                    /\ udp_sent' = Append(udp_sent, [addr |-> addr, data |-> <<1>>])
                    /\ UNCHANGED udp_log
           ELSE \* UnicodeDecodeError: except Exception
                /\ udp_log' = LoopError("UnicodeDecodeError")
                /\ UNCHANGED <<clients, udp_connected, udp_sent>>
    /\ UNCHANGED <<env, call, udp_is_running, udp_sock, udp_gui_pc, send_imei, items_used,
                   items_pos, target_addr, udp_commands, udp_data, srv_vars, reg_vars,
                   sess_vars, stop_vars, gui_vars, event_vars>>

\* run, lines 50-59: recvfrom returns any other packet
udp_run_data(addr, chunk) ==
    /\ Recvfrom(addr, chunk)
    /\ ~is_imei_packet(Chunk[chunk])
    /\ LET imei_ == GetOr(clients, addr, Unknown(addr))
           decoded_data == env.decoded[chunk]
       IN  /\ udp_data' = udp_data \o data_received(imei_, chunk, decoded_data)
           /\ IF is_avl(decoded_data)
              THEN IF "struct" \in udp_server_names
                   THEN /\ udp_sent' =
                             Append(udp_sent, [addr |-> addr,
                                               data |-> pack_I(decoded_data.record_count)])
                        /\ UNCHANGED udp_log
                   ELSE \* NameError: except Exception
                        /\ udp_log' = LoopError("NameError")
                        /\ UNCHANGED udp_sent
              ELSE UNCHANGED <<udp_sent, udp_log>>
    /\ UNCHANGED <<env, call, udp_is_running, udp_sock, clients, udp_gui_pc, send_imei,
                   items_used, items_pos, target_addr, udp_commands, udp_connected,
                   srv_vars, reg_vars, sess_vars, stop_vars, gui_vars, event_vars>>

\* run: self.sock.close() and the last log message
udp_run_close ==
    /\ udp_pc = "close"
    /\ udp_sock' = "closed"
    /\ udp_log' = Append(udp_log, Message("udp_server_stopped", "info", ""))
    /\ udp_pc' = "finished"
    /\ UNCHANGED <<env, call, udp_is_running, clients, udp_gui_pc, send_imei, items_used,
                   items_pos, target_addr, udp_commands, udp_rx, udp_sent, udp_connected,
                   udp_data, srv_vars, reg_vars, sess_vars, stop_vars, gui_vars,
                   event_vars>>

\* stop: self.is_running = False, then self.wait()
udp_stop ==
    /\ udp_gui_pc = "idle"
    /\ udp_isRunning
    /\ udp_is_running' = FALSE
    /\ udp_gui_pc' = "wait"
    /\ UNCHANGED <<env, call, udp_pc, udp_sock, clients, send_imei, items_used, items_pos,
                   target_addr, udp_commands, udp_rx, udp_sent, udp_connected, udp_data,
                   udp_log, srv_vars, reg_vars, sess_vars, stop_vars, gui_vars,
                   event_vars>>

\* stop: self.wait() returns, the server thread has ended
udp_stop_returns ==
    /\ udp_gui_pc = "wait"
    /\ ~udp_isRunning
    /\ udp_gui_pc' = "stopped"
    /\ UNCHANGED <<env, call, udp_pc, udp_is_running, udp_sock, clients, send_imei,
                   items_used, items_pos, target_addr, udp_commands, udp_rx, udp_sent,
                   udp_connected, udp_data, udp_log, srv_vars, reg_vars, sess_vars,
                   stop_vars, gui_vars, event_vars>>

\* the call ends: how is "sent", "not_found" or the exception raised
Outcome(how) == Append(udp_commands, [imei |-> send_imei, outcome |-> how])

\* send_command_to_device(imei, command_str) of a running server:
\* target_addr = None, and the for statement makes its iterator
udp_send_command_to_device(imei_) ==
    /\ udp_gui_pc = "idle"
    /\ udp_isRunning
    /\ Len(udp_commands) < env.ops
    /\ send_imei' = imei_
    /\ target_addr' = NoAddr
    /\ items_used' = Len(clients)
    /\ items_pos' = 0
    /\ udp_gui_pc' = "for"
    /\ UNCHANGED <<env, call, udp_pc, udp_is_running, udp_sock, clients, udp_commands,
                   udp_rx, udp_sent, udp_connected, udp_data, udp_log, srv_vars, reg_vars,
                   sess_vars, stop_vars, gui_vars, event_vars>>

\* for addr, client_imei in self.clients.items(): the next item, if client_imei
\* == imei the break, and the end of the loop
udp_send_command_next ==
    /\ udp_gui_pc = "for"
    /\ Len(clients) = items_used
    /\ IF items_pos < Len(clients)
       THEN LET item == clients[items_pos + 1]
            IN  /\ items_pos' = items_pos + 1
                /\ IF item.imei = send_imei
                   THEN target_addr' = item.addr /\ udp_gui_pc' = "if"
                   ELSE UNCHANGED <<target_addr, udp_gui_pc>>
       ELSE /\ udp_gui_pc' = "if"
            /\ UNCHANGED <<items_pos, target_addr>>
    /\ UNCHANGED <<env, call, udp_pc, udp_is_running, udp_sock, clients, send_imei,
                   items_used, udp_commands, udp_rx, udp_sent, udp_connected, udp_data,
                   udp_log, srv_vars, reg_vars, sess_vars, stop_vars, gui_vars,
                   event_vars>>

\* the iterator finds the dict grown by the receive loop: RuntimeError
\* (dictionary changed size during iteration), raised to the caller
udp_send_command_raises ==
    /\ udp_gui_pc = "for"
    /\ Len(clients) # items_used
    /\ udp_commands' = Outcome("RuntimeError")
    /\ udp_gui_pc' = "idle"
    /\ UNCHANGED <<env, call, udp_pc, udp_is_running, udp_sock, clients, send_imei,
                   items_used, items_pos, target_addr, udp_rx, udp_sent, udp_connected,
                   udp_data, udp_log, srv_vars, reg_vars, sess_vars, stop_vars, gui_vars,
                   event_vars>>

\* send_command_to_device, lines 82-85: if target_addr
udp_send_command_found(command_str) ==
    /\ udp_gui_pc = "if"
    /\ target_addr # NoAddr
    /\ udp_sent' = Append(udp_sent, [addr |-> target_addr,
                                     data |-> encode_codec12_command(command_str)])
    /\ udp_log' = Append(udp_log, Message("sent_command", "info", ""))
    /\ udp_commands' = Outcome("sent")
    /\ udp_gui_pc' = "idle"
    /\ UNCHANGED <<env, call, udp_pc, udp_is_running, udp_sock, clients, send_imei,
                   items_used, items_pos, target_addr, udp_rx, udp_connected, udp_data,
                   srv_vars, reg_vars, sess_vars, stop_vars, gui_vars, event_vars>>

\* send_command_to_device, lines 86-87: else
udp_send_command_not_found ==
    /\ udp_gui_pc = "if"
    /\ target_addr = NoAddr
    /\ udp_log' = Append(udp_log, Message("could_not_send_command", "warn", ""))
    /\ udp_commands' = Outcome("not_found")
    /\ udp_gui_pc' = "idle"
    /\ UNCHANGED <<env, call, udp_pc, udp_is_running, udp_sock, clients, send_imei,
                   items_used, items_pos, target_addr, udp_rx, udp_sent, udp_connected,
                   udp_data, srv_vars, reg_vars, sess_vars, stop_vars, gui_vars,
                   event_vars>>

NextUdp ==
    \/ udp_start
    \/ udp_run_begin
    \/ udp_run_setup_ok
    \/ udp_run_setup_fails
    \/ udp_run_loop
    \/ udp_run_timeout
    \/ \E addr \in Addresses, chunk \in DOMAIN Chunk : udp_run_imei(addr, chunk)
    \/ \E addr \in Addresses, chunk \in DOMAIN Chunk : udp_run_data(addr, chunk)
    \/ udp_run_close
    \/ udp_stop
    \/ udp_stop_returns
    \/ \E imei_ \in Imeis : udp_send_command_to_device(imei_)
    \/ udp_send_command_next
    \/ udp_send_command_raises
    \/ \E command_str \in Commands : udp_send_command_found(command_str)
    \/ udp_send_command_not_found

SpecUdp == InitUdp /\ [][NextUdp]_vars

(***************************************************************************)
(* What the claims speak of.                                                *)
(***************************************************************************)
\* some thread is inside h.stop()
Stopping(h) == \E t \in Threads : stop_pc[t] # "idle" /\ stop_of[t] = h

\* the dict maps the identifier of s to s
InRegistry(s) == Has(client_handlers, imei[s]) /\ Get(client_handlers, imei[s]) = s

\* an unregister_client of s has deleted its entry
HasUnregistered(s) ==
    \/ disconnected[s] > 0
    \/ \E t \in Threads : stop_pc[t] = "emit" /\ stop_of[t] = s /\ unregistered[t]

\* the byte 0x01 has been written to s
Acked(s) == \E i \in 1..Len(sent[s]) : sent[s][i] = <<1>>

\* thread t takes the with block of unregister_client in this step
UnregisterStep(t) == stop_pc[t] = "unregister" /\ stop_pc'[t] = "emit"

\* thread t passes the emit of unregister_client in this step
EmitStep(t) == stop_pc[t] = "emit" /\ stop_pc'[t] = "close"

\* the operator's call recorded in this step, if one is
Called == commands'[Len(commands')]
IsCall(op) == Len(commands') = Len(commands) + 1 /\ Called.op = op

(***************************************************************************)
(* C1.  unregister_client(imei, h) deletes the entry of imei only when the  *)
(* dict holds h under imei, and then deletes that entry alone; in every     *)
(* other case the dict stays as it is.  So the unregister of a handler      *)
(* whose entry a later handler of the same identifier has overwritten       *)
(* leaves the later handler registered: a handler that has registered, that *)
(* nobody has overwritten and that has not unregistered itself is in the    *)
(* dict, whatever the other handlers of its identifier do.                  *)
(***************************************************************************)
C1_UnregisterOnlyOwn ==
    /\ [](\A s \in Sessions :
            (imei[s] # NoImei /\ pc[s] # "register" /\ s \notin superseded
                /\ ~HasUnregistered(s)) => InRegistry(s))
    /\ [][\A t \in Threads :
            UnregisterStep(t) =>
                LET h == stop_of[t]
                    id == imei[h]
                IN  IF Has(client_handlers, id) /\ Get(client_handlers, id) = h
                    THEN client_handlers' = Del(client_handlers, id)
                    ELSE client_handlers' = client_handlers]_vars

\* a handler that was overwritten has passed its unregister, and the dict
\* still holds the later handler under the identifier
C1_Witness ==
    \E t \in Threads :
        /\ stop_pc[t] = "emit"
        /\ stop_of[t] \in superseded
        /\ ~unregistered[t]
        /\ Has(client_handlers, imei[stop_of[t]])
        /\ Get(client_handlers, imei[stop_of[t]]) # stop_of[t]
        /\ is_running[Get(client_handlers, imei[stop_of[t]])]

(***************************************************************************)
(* C2.  unregister_client emits device_disconnected exactly when that call  *)
(* deleted the entry: its local flag is set iff its with block changed the  *)
(* dict, the event count of the handler rises by one iff the flag is set,   *)
(* a call that finds the identifier absent or held by another handler       *)
(* leaves the dict as it is, and no other step emits the event.             *)
(***************************************************************************)
C2_DisconnectedIffRemoved ==
    [][/\ \A t \in Threads :
            UnregisterStep(t) =>
                /\ unregistered'[t] <=> client_handlers' # client_handlers
                /\ ~InRegistry(stop_of[t]) =>
                        ~unregistered'[t] /\ client_handlers' = client_handlers
                /\ disconnected' = disconnected
       /\ \A t \in Threads :
            EmitStep(t) =>
                /\ disconnected' =
                     [disconnected EXCEPT ![stop_of[t]] = @ + (IF unregistered[t] THEN 1 ELSE 0)]
                /\ client_handlers' = client_handlers
       /\ (\A t \in Threads : ~EmitStep(t)) => disconnected' = disconnected]_vars

\* a call has deleted the entry and emitted the event
C2_Witness ==
    \E t \in Threads :
        /\ stop_pc[t] = "close"
        /\ unregistered[t]
        /\ disconnected[stop_of[t]] = 1
        /\ ~Has(client_handlers, imei[stop_of[t]])

(***************************************************************************)
(* C3.  No two running sessions that have completed the handshake (the      *)
(* byte 0x01 has been written to each) hold the same identifier.            *)
(***************************************************************************)
C3_OneLiveOwner ==
    \A s1, s2 \in Sessions :
        (/\ s1 # s2
         /\ is_running[s1] /\ is_running[s2]
         /\ Acked(s1) /\ Acked(s2)
         /\ imei[s1] # NoImei) => imei[s1] # imei[s2]

C5_KickUnknown ==
    [][IsCall("kick") =>
          /\ Called.handler = None <=> ~Has(client_handlers, Called.imei)
          /\ Called.handler = None =>
                /\ log' = Logged(log, 0, "could_not_kick")
                /\ level("could_not_kick") = "error"
                /\ client_handlers' = client_handlers
                /\ disconnected' = disconnected
                /\ is_running' = is_running
                /\ connection' = connection
                /\ stop_pc' = stop_pc
                /\ gui_pc' = gui_pc]_vars

\* a kick of an identifier that is not in the dict was logged, while a
\* session of another identifier is registered
C5_Witness ==
    /\ \E i \in 1..Len(commands) : commands[i].op = "kick" /\ commands[i].handler = None
    /\ log[0]["could_not_kick"] = 1
    /\ client_handlers # << >>

(***************************************************************************)
(* C6.  Every step of kick_device(id), from the look-up to the return of    *)
(* the stop it calls, leaves the running flag, the identifier and the       *)
(* connection of every session other than the one it found as they are, and *)
(* leaves the dict as it is under every other identifier.                   *)
(***************************************************************************)
C6_KickFrame ==
    [][(IsCall("kick") \/ stop_pc'[GUI] # stop_pc[GUI]) =>
          LET h == IF stop_of[GUI] # None THEN stop_of[GUI] ELSE stop_of'[GUI]
          IN  /\ \A s \in Sessions \ {h} :
                    /\ is_running'[s] = is_running[s]
                    /\ imei'[s] = imei[s]
                    /\ connection'[s] = connection[s]
              /\ \A id \in Imeis :
                    (h = None \/ id # imei[h]) =>
                        /\ Has(client_handlers', id) <=> Has(client_handlers, id)
                        /\ Has(client_handlers, id) =>
                              Get(client_handlers', id) = Get(client_handlers, id)]_vars

\* a kick has stopped the session it found and has returned, while a session
\* of another identifier is registered and running
C6_Witness ==
    \E i \in 1..Len(commands), s \in Sessions :
        /\ commands[i].op = "kick"
        /\ commands[i].handler \notin {None, s}
        /\ connection[commands[i].handler] = "closed"
        /\ gui_pc = "idle"
        /\ imei[s] # commands[i].imei
        /\ InRegistry(s)
        /\ is_running[s]
        /\ connection[s] = "open"

(***************************************************************************)
(* C7, as the claim has it.  A session that has received its first chunk    *)
(* has its identifier exactly when the chunk has at least 17 bytes and      *)
(* begins with 0x00 0x0F.                                                   *)
(***************************************************************************)
C7_IdentifiedExactlyWhenPrefixed ==
    \A s \in Sessions :
        rx[s] # << >> =>
            LET data == Chunk[rx[s][1]]
            IN  imei[s] # NoImei <=> (Len(data) >= 17 /\ data[1] = 0 /\ data[2] = 15)

(***************************************************************************)
(* C7, amended.  A session that has received its first chunk has its        *)
(* identifier exactly when the chunk has at least 17 bytes, begins with     *)
(* 0x00 0x0F and its bytes [2:17] are UTF-8 text; the identifier is that    *)
(* text.  The byte 0x01 is written at most once, and only after             *)
(* register_client has put the session in the dict and emitted              *)
(* device_connected, and after the message of the delay when the session's  *)
(* settings ask for one.                                                    *)
(***************************************************************************)
C7_IdentifiedExactlyWhenDecodable ==
    \A s \in Sessions :
        /\ rx[s] = << >> => imei[s] = NoImei /\ sent[s] = << >>
        /\ rx[s] # << >> =>
              LET data == Chunk[rx[s][1]]
                  acks == {i \in 1..Len(sent[s]) : sent[s][i] = <<1>>}
              IN  /\ imei[s] # NoImei <=>
                        /\ Len(data) >= 17
                        /\ data[1] = 0 /\ data[2] = 15
                        /\ Utf8Valid(Slice(data, 2, 17))
                  /\ imei[s] # NoImei => imei[s] = Utf8Decode(Slice(data, 2, 17))
                  /\ Cardinality(acks) <= 1
                  /\ acks # {} =>
                        /\ imei[s] # NoImei
                        /\ pc[s] \notin {"register", "connected", "ack_imei"}
                        /\ connected[s] = 1
                        /\ InRegistry(s) \/ s \in superseded \/ HasUnregistered(s)
                        /\ sess_debug[s].delay_imei_ack > 0 => log[s]["delay_imei_ack"] = 1
                  /\ pc[s] \in {"register", "connected", "ack_imei"} => acks = {}

\* a session is identified and registered, and its one acknowledgment is written
C7_Witness ==
    \E s \in Sessions :
        /\ rx[s] = <<"id_a">>
        /\ imei[s] = IMEI_A
        /\ InRegistry(s)
        /\ sent[s] = <<imei_ack>>
        /\ is_running[s]

(***************************************************************************)
(* C8.  device_connected is emitted for a session at most once: once when   *)
(* its handshake has passed register_client, never before, and never again  *)
(* whatever chunks it receives afterwards, a second identity chunk          *)
(* included.                                                                *)
(***************************************************************************)
C8_ConnectedOnce ==
    \A s \in Sessions :
        /\ connected[s] <= 1
        /\ connected[s] = 1 <=> (imei[s] # NoImei /\ pc[s] \notin {"register", "connected"})
        /\ Acked(s) => connected[s] = 1

\* an identified session has received an identity chunk again and one more
\* chunk, and its event has been emitted once
C8_Witness ==
    \E s \in Sessions :
        /\ Len(rx[s]) >= 3
        /\ rx[s][2] = "id_a"
        /\ connected[s] = 1
        /\ Len(data_events[s]) = Len(rx[s]) - 1

(***************************************************************************)
(* C9.  A session whose first chunk is shorter than 17 bytes or does not    *)
(* begin with 0x00 0x0F leaves its loop at once: one message of level       *)
(* "warn" is logged, it has no identifier, it was never put in the dict,    *)
(* nothing is written to it, no event of any kind is emitted for it, it     *)
(* receives nothing more, and its stop closes the connection.               *)
(***************************************************************************)
C9_InvalidFirstChunk ==
    \A s \in Sessions :
        rx[s] # << >> =>
            LET data == Chunk[rx[s][1]]
            IN  ~(Len(data) >= 17 /\ data[1] = 0 /\ data[2] = 15) =>
                    /\ Len(rx[s]) = 1
                    /\ pc[s] \in {"stopping", "done"}
                    /\ log[s]["invalid_first_packet"] = 1
                    /\ level("invalid_first_packet") = "warn"
                    /\ log[s]["error_handling_client"] = 0
                    /\ imei[s] = NoImei
                    /\ \A i \in 1..Len(client_handlers) : client_handlers[i].handler # s
                    /\ s \notin superseded
                    /\ sent[s] = << >>
                    /\ connected[s] = 0
                    /\ disconnected[s] = 0
                    /\ data_events[s] = << >>
                    /\ pc[s] = "done" =>
                          ~is_running[s] /\ connection[s] = "closed"
                              /\ log[s]["connection_closed"] = 1

\* a session whose first chunk had 16 bytes has ended
C9_Witness ==
    \E s \in Sessions :
        /\ rx[s] = <<"short_id">>
        /\ pc[s] = "done"
        /\ connection[s] = "closed"
        /\ log[s]["invalid_first_packet"] = 1

(***************************************************************************)
(* C10.  The data_received events of a session are, one for one and in the  *)
(* order of arrival, the chunks it received after the one that identified   *)
(* it: each carries the session's identifier, the chunk as it came and what *)
(* decode_packet makes of it, whatever that is.                             *)
(***************************************************************************)
C10_OneEventPerChunk ==
    \A s \in Sessions :
        /\ Len(data_events[s]) = (IF rx[s] = << >> THEN 0 ELSE Len(rx[s]) - 1)
        /\ \A i \in 1..Len(data_events[s]) :
              data_events[s][i] = [imei |-> imei[s],
                                   raw |-> rx[s][i + 1],
                                   decoded |-> env.decoded[rx[s][i + 1]]]

\* a chunk that fails its CRC and an AVL frame have arrived in this order and
\* both were emitted
C10_Witness ==
    \E s \in Sessions :
        /\ Len(data_events[s]) = 2
        /\ data_events[s][1].raw = "corrupt"
        /\ data_events[s][1].decoded.type = "corrupt"
        /\ data_events[s][2].raw = "avl"
        /\ data_events[s][2].decoded.type = "Codec 8"

(***************************************************************************)
(* C11.  An identified session writes a 4-byte big-endian acknowledgment    *)
(* exactly for the frames that decode to an AVL packet (Codec 8 or Codec 8  *)
(* Extended), in their order, and its value is the record-count byte the    *)
(* frame declares, not the number of records parsed; a corrupt frame, a     *)
(* parsing error, a JSON text, a command echo or a frame of another codec   *)
(* is never acknowledged.  Only the acknowledgment of the last such frame   *)
(* may be absent: while it is still to be written, or when writing it       *)
(* failed and ended the session.                                            *)
(***************************************************************************)
\* the 4-byte strings written to the transport of s
RecordAcks(s) == SelectSeq(sent[s], LAMBDA m : Len(m) = 4)

\* the frames s received after its identity that decode to an AVL packet
AvlFrames(s) ==
    IF rx[s] = << >> THEN << >>
    ELSE SelectSeq(Tail(rx[s]),
                   LAMBDA c : env.decoded[c].type \in {"Codec 8", "Codec 8 Extended"})

\* byte 9 of a frame, counted from 0: the record count it declares
DeclaredCount(c) == Chunk[c][10]

C11_AckDeclaredCount ==
    \A s \in Sessions :
        LET acks == RecordAcks(s)
            frames == AvlFrames(s)
        IN  /\ Len(acks) <= Len(frames)
            /\ Len(frames) <= Len(acks) + 1
            /\ \A i \in 1..Len(acks) : acks[i] = <<0, 0, 0, DeclaredCount(frames[i])>>
            /\ pc[s] \in {"loop", "recv"} => Len(acks) = Len(frames)
            /\ pc[s] = "ack_record" => Len(frames) = Len(acks) + 1

\* a session was sent a corrupt frame, then one that declares two records and
\* carries one; only the latter was acknowledged, with 2
C11_Witness ==
    \E s \in Sessions :
        /\ rx[s] = <<"id_a", "corrupt", "avl2">>
        /\ Len(env.decoded["avl2"].records) = 1
        /\ RecordAcks(s) = << <<0, 0, 0, 2>> >>

(***************************************************************************)
(* C12.  A telemetry frame whose CRC does not match, or whose decoding      *)
(* fails on its structure, does not end the session: the step that takes    *)
(* the frame leaves the session running, identified, with its transport     *)
(* and its entry of the registry as they were, starts no stop and logs      *)
(* nothing, and goes back to the head of the loop; the frame that follows   *)
(* is decoded and reported like any other.                                  *)
(***************************************************************************)
\* the chunk decodes to a corrupt packet or to a parsing error
DecodeFails(chunk) == env.decoded[chunk].type \in {"corrupt", "parsing_error"}

C12_DecodeErrorKeepsSession ==
    /\ [][\A s \in Sessions : \A chunk \in TelemetryChunks :
             (recv_telemetry(s, chunk) /\ DecodeFails(chunk))
             => /\ pc'[s] = "loop"
                /\ is_running' = is_running
                /\ imei' = imei
                /\ connection' = connection
                /\ client_handlers' = client_handlers
                /\ stop_pc' = stop_pc
                /\ log' = log]_vars
    /\ [](\A s \in Sessions : \A i \in 2..Len(rx[s]) :
             (imei[s] # NoImei /\ i > 2 /\ DecodeFails(rx[s][i - 1]))
             => /\ Len(data_events[s]) >= i - 1
                /\ data_events[s][i - 1].decoded = env.decoded[rx[s][i]])

\* a session took a corrupt frame, stayed in the registry and running, and
\* acknowledged the AVL frame that came next
C12_Witness ==
    \E s \in Sessions :
        /\ rx[s] = <<"id_a", "corrupt", "avl">>
        /\ is_running[s]
        /\ InRegistry(s)
        /\ connection[s] = "open"
        /\ Len(data_events[s]) = 2
        /\ RecordAcks(s) = << <<0, 0, 0, 1>> >>

(***************************************************************************)
(* C13.  A session that has ended (on an end of stream, on a reset, a       *)
(* broken pipe or a TLS EOF, or on a kick) and whose stop no thread is      *)
(* still running has its transport closed and runs no more; if it had an    *)
(* identifier, the registry does not hold it any more and                   *)
(* device_disconnected was emitted for it once, unless another session had  *)
(* taken its entry, in which case the entry was left alone and no event     *)
(* was emitted.  Neither the end of stream or reset that ends the loop nor  *)
(* any step of stop adds a message of error severity to the log.            *)
(***************************************************************************)
\* the thread of s has left run and no thread is inside s.stop()
Ended(s) == pc[s] = "done" /\ ~Stopping(s)

\* the error messages logged so far
Errors ==
    [who \in 0..NumSessions |->
        [kind \in {k \in LogKinds : level(k) = "error"} |-> log[who][kind]]]

C13_EndUnregistersAndCloses ==
    /\ [](\A s \in Sessions :
             Ended(s)
             => /\ connection[s] = "closed"
                /\ ~is_running[s]
                /\ imei[s] # NoImei
                   => /\ ~InRegistry(s)
                      /\ disconnected[s] = IF s \in superseded THEN 0 ELSE 1)
    /\ [][(\/ \E s \in Sessions : recv_eof(s) \/ recv_reset(s) \/ ack_raises(s, FALSE)
           \/ \E t \in Threads : \/ stop_check(t) \/ stop_clear(t) \/ unregister_client(t)
                                 \/ unregister_client_emit(t) \/ stop_close(t))
          => Errors' = Errors]_vars

\* an identified session that nobody kicked has ended: it is out of the
\* registry, its event was emitted, its transport is closed and the log holds
\* its connection_closed message and no error
C13_Witness ==
    \E s \in Sessions :
        /\ Ended(s)
        /\ imei[s] # NoImei
        /\ commands = << >>
        /\ srv_is_running
        /\ ~InRegistry(s)
        /\ disconnected[s] = 1
        /\ connection[s] = "closed"
        /\ log[s]["connection_closed"] = 1
        /\ \A kind \in LogKinds : level(kind) = "error" => log[s][kind] = 0

(***************************************************************************)
(* C14.  send_command_to_device(id, text), for an id that is in the         *)
(* registry, writes exactly encode_codec12_command(text), once, to the      *)
(* transport of the handler that is registered under id when it writes      *)
(* (of the sessions that registered under id, the one that did so last)     *)
(* and to the transport of no other session; the steps of the operator's    *)
(* send that do not write leave every transport as it was.                  *)
(***************************************************************************)
C14_SendToRegistered ==
    [][/\ \A command_str \in Commands :
            send_command(command_str)
            => LET h == gui_handler
                   id == commands[Len(commands)].imei
               IN  /\ Has(client_handlers, id)
                   /\ Get(client_handlers, id) = h
                   /\ imei[h] = id
                   /\ h \notin superseded
                   /\ \A s \in Sessions \ {h} : sent'[s] = sent[s]
                   /\ sent'[h] = IF is_running[h]
                                 THEN Append(sent[h], encode_codec12_command(command_str))
                                 ELSE sent[h]
       /\ (\/ send_command_raises
           \/ \E id \in Imeis : send_command_found(id) \/ send_command_not_found(id))
          => sent' = sent]_vars

\* two sessions registered under one identifier, both still running; the
\* command went to the one that registered last and to it alone
C14_Witness ==
    \E old, new \in Sessions :
        /\ old \in superseded
        /\ is_running[old] /\ connection[old] = "open"
        /\ imei[old] = imei[new]
        /\ InRegistry(new)
        /\ Len(commands) = 1 /\ commands[1].op = "send" /\ commands[1].handler = new
        /\ gui_pc = "idle"
        /\ sent[old] = << imei_ack >>
        /\ \E command_str \in Commands :
              sent[new] = << imei_ack, encode_codec12_command(command_str) >>

(***************************************************************************)
(* C15.  ClientHandler.send_command writes to the transport only while      *)
(* is_running is true.  Called on a handler that was stopped, it writes     *)
(* nothing, changes nothing of any session, of the registry or of the log,  *)
(* and raises nothing: it only returns.                                     *)
(***************************************************************************)
\* the step writes a command packet to the transport of h
WritesCommand(h) ==
    /\ Len(sent'[h]) = Len(sent[h]) + 1
    /\ Len(sent'[h][Len(sent'[h])]) > 4

SendsToUnregistered ==
    /\ Len(commands') = Len(commands) + 1
    /\ commands'[Len(commands')].op = "send"
    /\ ~Has(client_handlers, commands'[Len(commands')].imei)

C16_SendToUnknownIsLogged ==
    /\ [][SendsToUnregistered
          => /\ log' = Logged(log, 0, "could_not_send")
             /\ ~commands'[Len(commands')].raised
             /\ commands'[Len(commands')].handler = None
             /\ gui_pc' = "idle"
             /\ client_lock' = None
             /\ UNCHANGED <<reg_vars, sess_vars, stop_vars, srv_vars, device_list, rx, sent,
                            connected, disconnected, data_events>>]_vars
    /\ [](\A i \in 1..Len(commands) :
             (commands[i].op = "send" /\ commands[i].handler = None)
             => ~commands[i].raised /\ log[0]["could_not_send"] >= 1)

\* a device connected, was identified and disconnected; the command sent to
\* its identifier afterwards was logged, and nothing was written but 0x01
C16_Witness ==
    \E s \in Sessions :
        /\ Ended(s)
        /\ disconnected[s] = 1
        /\ commands = << [op |-> "send", imei |-> imei[s], handler |-> None,
                          raised |-> FALSE] >>
        /\ log[0]["could_not_send"] = 1
        /\ sent[s] = << imei_ack >>
        /\ gui_pc = "idle"

(***************************************************************************)
(* C17.  encode_codec12_command(text) returns four zero bytes, the 4-byte   *)
(* big-endian length of the region, the region (0x0C, 0x01, 0x05, the       *)
(* 4-byte big-endian length of the command, the command bytes, 0x01) and    *)
(* the 4-byte big-endian crc16 of the entire region: crc16(out[8:-4]) is    *)
(* the integer in out[-4:].                                                 *)
(***************************************************************************)
C17_CrcOverRegion ==
    (call.fn = "encode_codec12_command" /\ Returned)
    => LET out == call.ret
           command == call.arg
           region == <<12, 1, 5>> \o pack_I(Len(command)) \o command \o <<1>>
       IN  /\ Slice(out, 0, 8) = <<0, 0, 0, 0>> \o pack_I(Len(region))
           /\ Slice(out, 8, Len(out) - 4) = region
           /\ SliceFrom(out, Len(out) - 4) = pack_I(crc16(Slice(out, 8, Len(out) - 4)))

\* what the function does return: the layout above, with the crc16 of the
\* region less its first three bytes
C17_CrcSkipsThreeBytes ==
    (call.fn = "encode_codec12_command" /\ Returned)
    => LET out == call.ret
           command == call.arg
           region == <<12, 1, 5>> \o pack_I(Len(command)) \o command \o <<1>>
       IN  /\ Slice(out, 0, 8) = <<0, 0, 0, 0>> \o pack_I(Len(region))
           /\ Slice(out, 8, Len(out) - 4) = region
           /\ SliceFrom(out, Len(out) - 4) = pack_I(crc16(SliceFrom(region, 3)))
           /\ SliceFrom(out, Len(out) - 4) # pack_I(crc16(region))

(***************************************************************************)
(* C18.  crc16 is the reflected CRC of polynomial 0xA001 and initial value  *)
(* 0, taken byte by byte, least significant bit first, 8 shifts per byte:   *)
(* on every byte string it returns what a reference implementation of that  *)
(* algorithm returns, a value in 0..65535, and 0 on the empty string.       *)
(***************************************************************************)
\* The reference: a shift register fed one message bit at a time, the least
\* significant bit of each byte first.  The register is the set of the
\* positions of its one bits; 0xA001 has the bits 0, 13 and 15.
reference_crc16(data) ==
    LET Xor(a, b) == (a \ b) \cup (b \ a)
        Step(reg, bit) ==
            LET shifted == {i - 1 : i \in reg \ {0}}
            IN  IF (0 \in reg) # bit THEN Xor(shifted, {0, 13, 15}) ELSE shifted
        RECURSIVE Bits(_, _, _)
        Bits(reg, byte, k) ==
            \* the bits k..7 of byte
            IF k = 8 THEN reg
            ELSE Bits(Step(reg, (byte \div (2 ^ k)) % 2 = 1), byte, k + 1)
        RECURSIVE Bytes(_, _)
        Bytes(reg, i) ==
            \* the bytes i.. of data
            IF i > Len(data) THEN reg
            ELSE LET r == Bits(reg, data[i], 0)
                 IN  IF Cardinality(r) >= 0 THEN Bytes(r, i + 1) ELSE r
        RECURSIVE Value(_, _)
        Value(reg, i) ==
            IF i = 16 THEN 0 ELSE (IF i \in reg THEN 2 ^ i ELSE 0) + Value(reg, i + 1)
    IN  Value(Bytes({}, 1), 0)

C18_Crc16IsReference ==
    (call.fn = "crc16" /\ Returned)
    => /\ call.ret = reference_crc16(call.arg)
       /\ call.ret \in 0..65535
       /\ call.arg = << >> => call.ret = 0

\* crc16 has returned 0xBB3D on "123456789", the value this CRC is known by
C18_Witness ==
    /\ call.fn = "crc16"
    /\ Returned
    /\ call.arg = <<49, 50, 51, 52, 53, 54, 55, 56, 57>>
    /\ call.ret = 47933

(***************************************************************************)
(* C19.  decode_packet never raises: it always returns a packet.  As first  *)
(* stated: for every truncated buffer (fewer than 8 bytes, or a declared    *)
(* length L and fewer than 8 + L + 4 bytes) the packet is a parsing error   *)
(* that carries the bytes of the buffer in hexadecimal.                     *)
(***************************************************************************)
\* fewer than 8 bytes, or fewer than the declared length asks for
Truncated(b) ==
    \/ Len(b) < 8
    \/ Len(b) < 8 + data_field_length(Slice(b, 4, 8)) + 4

\* a text in braces that json.loads accepts
JsonText(b) ==
    /\ b # << >>
    /\ b[1] = 123
    /\ b[Len(b)] = 125
    /\ Utf8Valid(b)
    /\ json_loads_ok(Utf8Decode(b))

WellFramed(b) ==
    /\ Len(b) >= 12
    /\ Slice(b, 0, 4) = <<0, 0, 0, 0>>
    /\ Len(b) = 8 + data_field_length(Slice(b, 4, 8)) + 4

C20_CrcMismatchIsCorrupt ==
    (call.fn = "decode_packet" /\ Returned)
    => LET b == call.arg
       IN  /\ WellFramed(b)
              => (call.ret.type = "corrupt"
                  <=> SliceFrom(b, Len(b) - 4)
                          # pack_I(reference_crc16(Slice(b, 8, Len(b) - 4))))
           /\ call.how = "valid" => call.ret.type \notin {"corrupt", "parsing_error"}
           /\ call.how = "data_flip" => WellFramed(b) /\ call.ret.type = "corrupt"

\* decode_packet has returned a corrupt packet for AvlChunk with bit 2 of
\* byte 20 flipped, and the packet tells the two CRC values apart
C20_Witness ==
    /\ call.fn = "decode_packet"
    /\ Returned
    /\ call.how = "data_flip"
    /\ call.arg = Chunk.corrupt
    /\ call.ret.type = "corrupt"
    /\ call.ret.got = SliceFrom(AvlChunk, 41)
    /\ pack_I(call.ret.calculated) # call.ret.got

(***************************************************************************)
(* C21.  For a frame with a valid CRC, decode_packet dispatches on the      *)
(* first data byte: 0x08 or 0x8E gives an AVL packet, 0x0C gives a command  *)
(* echo built from the data bytes [5:-1], and every other value gives an    *)
(* unknown-codec packet that carries the data bytes in hexadecimal.         *)
(***************************************************************************)
C21_DispatchOnCodecByte ==
    (call.fn = "decode_packet" /\ Returned /\ call.how \in {"valid", "codec"})
    => LET b == call.arg
           crc_data == Slice(b, 8, Len(b) - 4)
           codec_id == crc_data[1]
       IN  /\ WellFramed(b)
           /\ SliceFrom(b, Len(b) - 4) = pack_I(reference_crc16(crc_data))
           /\ IF codec_id \in {8, 142}
              THEN /\ call.ret.type = IF codec_id = 8 THEN "Codec 8" ELSE "Codec 8 Extended"
                   /\ call.ret.record_count = crc_data[2]
              ELSE IF codec_id = 12
              THEN call.ret = [type |-> "Codec 12 Response",
                               data |-> Utf8DecodeIgnore(Slice(crc_data, 5,
                                                               Len(crc_data) - 1))]
              ELSE call.ret = [type |-> "Codec " \o ToString(codec_id),
                               data |-> hexlify(crc_data)]

\* what the function does for the byte 0x11: a packet of its own type whose
\* data is a fixed text, not the bytes
C21_Codec17HasNoBytes ==
    (call.fn = "decode_packet" /\ Returned /\ call.how = "codec" /\ call.arg[9] = 17)
    => call.ret = [type |-> "Codec 17 Response", data |-> "Decoding not fully implemented"]

(***************************************************************************)
(* C22.  The stream server stops in this order: the running flag is         *)
(* cleared; the loop leaves accepting; stop is called on every session      *)
(* that is in the registry when the loop is left; the listening socket is   *)
(* closed; "Server stopped." is reported.  So: past the loop the flag is    *)
(* false and no connection is accepted; the list of the sessions to stop    *)
(* is the registry as it is then; the socket is closed only when stop has   *)
(* returned for each of them, none of them running any more; and the        *)
(* report is made only with the socket closed.                              *)
(***************************************************************************)
\* run is past its while loop
PastLoop == srv_pc \in {"snapshot", "stopping", "closed", "finished"}

C22_StopOrder ==
    /\ [](PastLoop => ~srv_is_running)
    /\ [](srv_pc = "stopping"
             => \A i \in 1..(Len(srv_snapshot) - Len(srv_todo)) :
                   stop_of[SRV] = srv_snapshot[i] \/ ~is_running[srv_snapshot[i]])
    /\ [](sock = "closed"
             => /\ srv_pc \in {"closed", "finished"}
                /\ stop_pc[SRV] = "idle"
                /\ \A i \in 1..Len(srv_snapshot) : ~is_running[srv_snapshot[i]])
    /\ [](log[0]["server_stopped"] > 0
             => srv_pc = "finished" /\ sock = "closed" /\ log[0]["server_stopped"] = 1)
    /\ [][/\ run_snapshot
             => srv_snapshot' = [i \in 1..Len(client_handlers) |-> client_handlers[i].handler]
          /\ PastLoop
             => /\ PastLoop'
                /\ \A s \in Sessions : pc[s] = "unborn" => pc'[s] = "unborn"
          /\ srv_pc = "finished" => UNCHANGED <<srv_pc, sock, srv_is_running>>]_vars

\* the server has stopped with two sessions in the registry: both were
\* stopped, the socket is closed and the report was made
C22_Witness ==
    /\ srv_pc = "finished"
    /\ Len(srv_snapshot) = 2
    /\ \A i \in 1..2 : ~is_running[srv_snapshot[i]] /\ connection[srv_snapshot[i]] = "closed"
    /\ sock = "closed"
    /\ log[0]["server_stopped"] = 1
    /\ commands = << >>

(***************************************************************************)
(* C23.  Once stop() has cleared the running flag of a server that          *)
(* listens, the accept loop ends and "Server stopped." is reported, given   *)
(* that accept returns (with a connection or on its timeout) and that the   *)
(* server thread keeps being scheduled.  The iteration that finds the flag  *)
(* false leaves the loop, and from then on no connection is accepted.       *)
(* (A stop() that comes before run has set the flag is undone by run and    *)
(* is not a stop of a running server.)                                      *)
(***************************************************************************)
C23_StopTerminates ==
    /\ (gui_pc = "wait" /\ ~srv_is_running /\ sock = "listening")
           ~> (srv_pc = "finished" /\ log[0]["server_stopped"] = 1)
    /\ [][/\ (srv_pc = "loop" /\ ~srv_is_running /\ srv_pc' # srv_pc)
             => srv_pc' = "snapshot"
          /\ PastLoop
             => \A s \in Sessions :
                   pc[s] \in {"unborn", "refused"} => pc'[s] = pc[s]]_vars

\* stop() has returned to the operator: the server had accepted a device,
\* its loop has ended and the report was made
C23_Witness ==
    /\ gui_pc = "stopped"
    /\ srv_pc = "finished"
    /\ ~srv_is_running
    /\ log[0]["server_stopped"] = 1
    /\ \E s \in Sessions : pc[s] = "done"

(***************************************************************************)
(* C24.  When making, wrapping, binding or listening on the socket fails,   *)
(* run gives up: "Failed to start server" is logged once as an error, the   *)
(* running flag is false, the socket never listens, the loop is never       *)
(* entered (no "Starting ... server" message, no session, an empty          *)
(* registry), and run does not try again: it has returned.                  *)
(***************************************************************************)
C24_StartupFailureAborts ==
    /\ [](srv_pc = "aborted"
             => /\ log[0]["failed_to_start"] = 1
                /\ level("failed_to_start") = "error"
                /\ ~srv_is_running
                /\ sock = "none"
                /\ log[0]["starting_server"] = 0
                /\ \A s \in Sessions : pc[s] = "unborn" /\ connection[s] = "none"
                /\ client_handlers = << >>
                /\ ~isRunning)
    /\ [](log[0]["failed_to_start"] > 0 => srv_pc = "aborted")
    /\ [][srv_pc = "aborted" => UNCHANGED <<srv_pc, srv_is_running, sock, sess_vars>>]_vars

\* the start has failed while the operator was asking the server to stop
C24_Witness ==
    /\ srv_pc = "aborted"
    /\ log[0]["failed_to_start"] = 1
    /\ ~srv_is_running
    /\ gui_pc = "stopped"

(***************************************************************************)
(* C25.  A change of the debug configuration that the operator makes while  *)
(* the server runs is used by every later imei-ack and record-ack step of   *)
(* every session, those accepted before the change included: the step       *)
(* delays (and logs its delay message) exactly when the delay that is       *)
(* current at that step is positive.                                        *)
(***************************************************************************)
C25_AckReadsCurrentDelay ==
    [][\A s \in Sessions :
          /\ ack_imei(s)
             => (log'[s]["delay_imei_ack"] > log[s]["delay_imei_ack"]
                 <=> srv_debug.delay_imei_ack > 0)
          /\ ack_record(s)
             => (log'[s]["delay_record_ack"] > log[s]["delay_record_ack"]
                 <=> srv_debug.delay_record_ack > 0)]_vars

\* what the sessions do: each step reads the configuration the server had
\* when the session was accepted
C25_AckReadsDelayAtAccept ==
    [][\A s \in Sessions :
          /\ ack_imei(s)
             => (log'[s]["delay_imei_ack"] > log[s]["delay_imei_ack"]
                 <=> sess_debug[s].delay_imei_ack > 0)
          /\ ack_record(s)
             => (log'[s]["delay_record_ack"] > log[s]["delay_record_ack"]
                 <=> sess_debug[s].delay_record_ack > 0)
          /\ pc[s] \notin {"unborn", "refused"} => sess_debug'[s] = sess_debug[s]]_vars

(***************************************************************************)
(* C26.  Only a failed start-up or stop() ends the stream server.  As long  *)
(* as the operator has not called stop(), a server whose socket listens     *)
(* keeps its running flag set and stays in its accept loop, whatever        *)
(* happened to the connections (a refused handshake, a corrupt frame, a     *)
(* parsing error, a transport error, a kick, a command to an unknown        *)
(* identifier); a connection that arrives is accepted; and no step but      *)
(* stop() (and the failed start-up) clears the flag.                        *)
(***************************************************************************)
StopCalled == gui_pc \in {"wait", "stopped"}

C26_OnlyStopEndsServer ==
    /\ [](sock = "listening" /\ ~StopCalled
             => /\ srv_is_running
                /\ srv_pc \in {"loop", "accept"}
                /\ \A s \in Sessions :
                      srv_pc = "accept" /\ IsNext(s) => ENABLED run_accept(s))
    /\ [][srv_is_running /\ ~srv_is_running' => stop_server \/ run_setup_fails]_vars
    /\ [][(srv_pc \in {"loop", "accept"} /\ srv_pc' \notin {"loop", "accept"})
             => (StopCalled /\ run_loop)]_vars

\* the first connection was refused in the handshake, a kick named an
\* unknown identifier, and the second connection was accepted and serves
C26_Witness ==
    /\ pc[1] = "refused"
    /\ log[0]["server_loop_error"] = 1
    /\ log[0]["could_not_kick"] = 1
    /\ pc[2] = "loop"
    /\ InRegistry(2)
    /\ srv_is_running
    /\ srv_pc = "accept"
    /\ ~StopCalled

(***************************************************************************)
(* C27.  A datagram of the identity shape, 0x00 0x0F and 15 identifier      *)
(* bytes, 17 bytes in all, that arrives from address a with identifier i    *)
(* makes the datagram server record a -> i and send 0x01 to a.              *)
(***************************************************************************)
\* the receive loop takes the datagram chunk from addr
Receives(addr, chunk) == udp_rx' = Append(udp_rx, [addr |-> addr, data |-> chunk])

\* 0x00 0x0F and 15 bytes of text
IdentityShape(data) ==
    Len(data) = 17 /\ Slice(data, 0, 2) = <<0, 15>> /\ Utf8Valid(Slice(data, 2, 17))

C27_IdentityIsRecorded ==
    [][\A addr \in Addresses : \A chunk \in DOMAIN Chunk :
          (Receives(addr, chunk) /\ IdentityShape(Chunk[chunk]))
          => /\ GetOr(clients', addr, NoImei) = Utf8Decode(Slice(Chunk[chunk], 2, 17))
             /\ udp_sent' = Append(udp_sent, [addr |-> addr, data |-> <<1>>])]_vars

\* what the loop does: the identifier is taken from a datagram of more than 17
\* bytes; an address that has no identifier gets this one, an address that has
\* one keeps it; 0x01 is sent
C27_LongIdentityIsRecorded ==
    [][\A addr \in Addresses : \A chunk \in DOMAIN Chunk :
          LET data == Chunk[chunk]
          IN  (Receives(addr, chunk) /\ Len(data) > 17 /\ Slice(data, 0, 2) = <<0, 15>>
                 /\ Utf8Valid(Slice(data, 2, 17)))
              => /\ GetOr(clients', addr, NoImei)
                      = GetOr(clients, addr, Utf8Decode(Slice(data, 2, 17)))
                 /\ udp_sent' = Append(udp_sent, [addr |-> addr, data |-> <<1>>])
                 /\ udp_data' = udp_data]_vars

\* and a datagram of 17 bytes is not: nothing is recorded, nothing is sent, the
\* datagram is reported as data of the address
C27_IdentityIsData ==
    [][\A addr \in Addresses : \A chunk \in DOMAIN Chunk :
          (Receives(addr, chunk) /\ IdentityShape(Chunk[chunk]))
          => /\ clients' = clients
             /\ udp_sent' = udp_sent
             /\ Len(udp_data') = Len(udp_data) + 1
             /\ udp_data'[Len(udp_data')].imei = GetOr(clients, addr, Unknown(addr))
             /\ udp_data'[Len(udp_data')].decoded.type = "unknown"]_vars

(***************************************************************************)
(* C28.  For every datagram from address a that is no identity, the         *)
(* datagram server emits one data_received event under the identifier       *)
(* recorded for a, or under "Unknown@<ip>" when none is, and if the         *)
(* datagram decodes to AVL data it sends the declared record count, four    *)
(* bytes big-endian, to a.                                                  *)
(***************************************************************************)
\* the datagram does not begin as an identity does
NoIdentity(data) == Slice(data, 0, 2) # <<0, 15>>

\* the one data_received event the datagram chunk from addr gives rise to
Reported(addr, chunk) ==
    udp_data' = Append(udp_data, [imei |-> GetOr(clients, addr, Unknown(addr)),
                                  raw |-> chunk,
                                  decoded |-> env.decoded[chunk]])

C28_DataIsReportedAndAcked ==
    [][\A addr \in Addresses : \A chunk \in env.chunks :
          (Receives(addr, chunk) /\ NoIdentity(Chunk[chunk]))
          => /\ Reported(addr, chunk)
             /\ udp_sent' =
                  IF env.decoded[chunk].type \in {"Codec 8", "Codec 8 Extended"}
                  THEN Append(udp_sent, [addr |-> addr, data |-> pack_I(Chunk[chunk][10])])
                  ELSE udp_sent]_vars

\* what the loop does: the event is emitted, and for AVL data the name struct
\* is looked up and not found; nothing is sent, the NameError is logged as an
\* error of the loop while the server runs
C28_DataIsReportedNotAcked ==
    [][\A addr \in Addresses : \A chunk \in env.chunks :
          (Receives(addr, chunk) /\ NoIdentity(Chunk[chunk]))
          => /\ Reported(addr, chunk)
             /\ udp_sent' = udp_sent
             /\ udp_log' =
                  IF /\ env.decoded[chunk].type \in {"Codec 8", "Codec 8 Extended"}
                     /\ udp_is_running
                  THEN Append(udp_log, [kind |-> "udp_loop_error", level |-> "error",
                                        error |-> "NameError"])
                  ELSE udp_log]_vars

(***************************************************************************)
(* C29.  UDPServer.send_command_to_device(id, text) sends the encoded       *)
(* command only when an address is recorded for id, and then to such an     *)
(* address; when none is recorded, the call logs a warning, sends nothing   *)
(* and leaves the map of addresses as it is.                                *)
(***************************************************************************)
\* the addresses recorded for the identifier id
Recorded(id) == {clients[i].addr : i \in {j \in 1..Len(clients) : clients[j].imei = id}}

\* the call of send_command_to_device ends with this step
CallEnds == udp_commands' # udp_commands

\* the step sends the command to the address it found
SendsCommand ==
    \E command_str \in Commands :
        udp_sent' = Append(udp_sent, [addr |-> target_addr,
                                      data |-> encode_codec12_command(command_str)])

C29_SendOnlyToRecorded ==
    [][CallEnds
          => /\ clients' = clients
             /\ IF Recorded(send_imei) = {}
                THEN /\ udp_sent' = udp_sent
                     /\ udp_log' = Append(udp_log, [kind |-> "could_not_send_command",
                                                    level |-> "warn", error |-> ""])
                ELSE udp_sent' # udp_sent
                        => SendsCommand /\ target_addr \in Recorded(send_imei)]_vars

\* what the call does: the same, unless the receive loop records an address
\* while the call walks through the map; the call then ends in a RuntimeError
\* that is raised to its caller, and nothing is logged or sent
C29_SendOnlyToRecordedOrRaise ==
    [][CallEnds
          => /\ clients' = clients
             /\ IF Len(clients) # items_used /\ udp_gui_pc = "for"
                THEN udp_sent' = udp_sent /\ udp_log' = udp_log
                ELSE /\ Recorded(send_imei) = {} => target_addr = NoAddr
                     /\ IF target_addr = NoAddr
                        THEN /\ udp_sent' = udp_sent
                             /\ udp_log' = Append(udp_log,
                                                  [kind |-> "could_not_send_command",
                                                   level |-> "warn", error |-> ""])
                        ELSE /\ SendsCommand
                             /\ target_addr \in Recorded(send_imei)]_vars

(***************************************************************************)
(* C30.  No thread holds client_lock while it performs a transport          *)
(* operation: the command packet is written, and a connection is shut down  *)
(* and closed, by a thread that does not hold the lock; so a session that   *)
(* is about to register is never kept waiting by a write to another         *)
(* device.                                                                  *)
(***************************************************************************)
C30_NoTransportUnderLock ==
    /\ [][/\ \A h \in Sessions : WritesCommand(h) => client_lock # GUI
          /\ send_command_raises => client_lock # GUI
          /\ \A t \in Threads : stop_close(t) => client_lock # t]_vars
    /\ [](\A s \in Sessions :
             gui_pc = "send" /\ pc[s] = "register" => ENABLED register_client(s))

\* what the operations do: register_client, unregister_client and kick_device
\* leave the lock before anything else happens; send_command_to_device holds it
\* from the lookup to the end of handler.send_command, and the session that
\* registers meanwhile waits
C30_SendHoldsLock ==
    /\ [](client_lock = (IF gui_pc = "send" THEN GUI ELSE None))
    /\ [][/\ \A h \in Sessions : WritesCommand(h) => client_lock = GUI
          /\ send_command_raises => client_lock = GUI
          /\ \A t \in Threads : stop_close(t) => client_lock # t]_vars
    /\ [](\A s \in Sessions :
             gui_pc = "send" /\ pc[s] = "register" => ~ENABLED register_client(s))

(***************************************************************************)
(* C31.  decode_codec8 returns the declared count as record_count and a     *)
(* list of records that holds the first record only, and none when the      *)
(* declared count is 0, whatever the declared count; when the fixed fields  *)
(* of the first record do not fit in the data, decode_packet returns a      *)
(* parsing error and no AVL packet.                                         *)
(***************************************************************************)
\* the call is one of decode_codec8, or of decode_packet on a data field framed
\* with its CRC, and has returned
Codec8Call ==
    /\ Returned
    /\ call.fn \in {"decode_codec8", "decode_packet"}
    /\ call.how \in {"codec8", "late"}

\* the data field of the call
Codec8Data ==
    IF call.fn = "decode_codec8" THEN call.arg ELSE Slice(call.arg, 8, Len(call.arg) - 4)

\* the fixed fields of the first record: 26 bytes after the codec and the count
FieldsFit == Len(Codec8Data) >= 28

\* the call failed: decode_codec8 raised, decode_packet returned a parsing error
Codec8Failed ==
    IF call.fn = "decode_codec8"
    THEN "exc" \in DOMAIN call.ret
    ELSE call.ret.type = "parsing_error"

\* the call returned the AVL packet with the declared count and the first
\* record only
FirstRecordOnly ==
    /\ ~Codec8Failed
    /\ call.ret.type = (IF Codec8Data[1] = 142 THEN "Codec 8 Extended" ELSE "Codec 8")
    /\ call.ret.record_count = Codec8Data[2]
    /\ Len(call.ret.records) = 1
    /\ call.ret.records[1].timestamp = Slice(Codec8Data, 2, 10)
    /\ call.ret.records[1].priority = Codec8Data[11]
    /\ call.ret.records[1].total_io_count = Codec8Data[28]

\* the claim as it stands: a record whose fixed fields fit is returned
C31_FirstRecordIfFits ==
    Codec8Call
    => IF Codec8Data[2] = 0
       THEN ~Codec8Failed /\ call.ret.record_count = 0 /\ call.ret.records = << >>
       ELSE IF FieldsFit THEN FirstRecordOnly ELSE Codec8Failed

\* the same, with the further failure: a timestamp later than the year 9999,
\* which datetime.fromtimestamp refuses, is a parsing error as well
C31_FirstRecordIfFitsAndDated ==
    Codec8Call
    => IF Codec8Data[2] = 0
       THEN ~Codec8Failed /\ call.ret.record_count = 0 /\ call.ret.records = << >>
       ELSE IF FieldsFit /\ BytesLeq(Slice(Codec8Data, 2, 10), MaxTimestamp)
       THEN FirstRecordOnly
       ELSE Codec8Failed

\* decode_packet returned one record of a frame that declares five
C31_Witness ==
    /\ Codec8Call
    /\ call.fn = "decode_packet"
    /\ Codec8Data[2] = 5
    /\ FieldsFit
    /\ call.ret.record_count = 5
    /\ Len(call.ret.records) = 1
    /\ call.ret.records[1].longitude = -1224194000

(***************************************************************************)
(* C32.  The events arrive in the order of the registry: whenever no        *)
(* session is inside register_client or unregister_client (every event      *)
(* emitted has reached the window, which adds the identifier to its list    *)
(* on device_connected and removes it on device_disconnected), the list     *)
(* of the window holds exactly the identifiers that are keys of the         *)
(* registry.                                                                *)
(***************************************************************************)
\* no thread is between the with block of register_client or unregister_client
\* and the event that follows it
NoneRegistering ==
    /\ \A s \in Sessions : pc[s] \notin {"register", "connected"}
    /\ \A t \in Threads : stop_pc[t] \notin {"unregister", "emit"}

C32_ListMatchesRegistry == NoneRegistering => device_list = Keys(client_handlers)

(***************************************************************************)
(* C33.  When "Server stopped." has been logged, no session the server      *)
(* accepted still runs and the registry is empty.                           *)
(***************************************************************************)
\* the sessions the server accepted
Accepted == {s \in Sessions : pc[s] \notin {"unborn", "refused"}}

C33_StoppedServerHasNoSessions ==
    log[0]["server_stopped"] >= 1
    => /\ \A s \in Accepted : ~is_running[s]
       /\ client_handlers = << >>

\* what the stop sequence does: the handlers that were values of the registry
\* when line 139 listed them are stopped; a session that was not among them has
\* not been stopped by the server
C33_StoppedServerStoppedListed ==
    log[0]["server_stopped"] >= 1
    => \A i \in 1..Len(srv_snapshot) : ~is_running[srv_snapshot[i]]

(***************************************************************************)
(* C34.  The cleanup of a session runs once: "Connection closed" is logged  *)
(* at most once for each session, and every step that logs it closes a      *)
(* transport that was open, whichever threads call stop() and however       *)
(* their calls interleave.                                                  *)
(***************************************************************************)
C34_CleanupRunsOnce ==
    /\ [](\A s \in Sessions : log[s]["connection_closed"] <= 1)
    /\ [][\A t \in Threads : stop_close(t) => connection[stop_of[t]] = "open"]_vars

\* what stop() guarantees: a caller that finds the flag cleared returns at
\* once; callers that read the flag before any of them has cleared it all run
\* the cleanup, at most one for each thread that can call stop()
C34_CleanupRunsPerCaller ==
    /\ [](\A s \in Sessions : log[s]["connection_closed"] <= Cardinality(Threads))
    /\ [][\A t \in Threads : stop_check(t) /\ ~is_running[stop_of[t]]
                                => stop_pc'[t] = "idle" /\ log' = log]_vars

(***************************************************************************)
(* C35.  After stop() of a session has returned, the registry maps no       *)
(* identifier to that session, and a stopped session is never put into      *)
(* the registry.                                                            *)
(***************************************************************************)
\* the registry maps some identifier to the session s
Registered(s) == \E i \in 1..Len(client_handlers) : client_handlers[i].handler = s

\* a call of s.stop() has returned: the one that ends the session's own run,
\* one of the server's stop sequence, or one of a kick
StopReturned(s) ==
    \/ pc[s] = "done"
    \/ /\ srv_pc \in {"closed", "finished"}
       /\ \E i \in 1..Len(srv_snapshot) : srv_snapshot[i] = s
    \/ /\ gui_pc = "idle"
       /\ \E i \in 1..Len(commands) : commands[i].op = "kick" /\ commands[i].handler = s

\* the claim as it stands
C35_StoppedIsUnregistered ==
    /\ [](\A s \in Sessions : StopReturned(s) => ~Registered(s))
    /\ [][\A s \in Sessions : register_client(s) => is_running[s]]_vars

\* the same of a session no call of stop() is at work on: a call that finds
\* the flag cleared returns at once, while the call that cleared it may not
\* have reached unregister_client yet
C35_StoppedAndLeftIsUnregistered ==
    /\ [](\A s \in Sessions : StopReturned(s) /\ ~Stopping(s) => ~Registered(s))
    /\ [][\A s \in Sessions : register_client(s) => is_running[s]]_vars
    /\ [][\A s \in Sessions :
             ~is_running[s] /\ ~Registered(s) => ~Registered(s)']_vars

\* a kicked session whose own stop() returned at once and whose kick has
\* finished: out of the registry, another session of the identifier in it
C35_Witness ==
    /\ StopReturned(1)
    /\ pc[1] = "done"
    /\ gui_pc = "idle"
    /\ Len(commands) = 1
    /\ commands[1].op = "kick"
    /\ commands[1].handler = 1
    /\ ~Stopping(1)
    /\ ~Registered(1)
    /\ Registered(2)
    /\ imei[2] = imei[1]

(***************************************************************************)
(* C36.  At every point, for each identifier the device_disconnected        *)
(* events emitted so far are at most as many as the device_connected        *)
(* events emitted so far, and each session causes at most one               *)
(* device_disconnected event.                                               *)
(***************************************************************************)
\* the sum of a per-session count over the sessions of a set
RECURSIVE SumOver(_, _)
SumOver(count, S) ==
    IF S = {} THEN 0
    ELSE LET s == CHOOSE x \in S : TRUE IN count[s] + SumOver(count, S \ {s})

\* the sessions that took an identifier
SessionsOf(id) == {s \in Sessions : imei[s] = id}

\* the identifiers taken so far
Taken == {imei[s] : s \in Sessions} \ {NoImei}

C36_DisconnectedWithinConnected ==
    /\ \A id \in Taken :
         SumOver(disconnected, SessionsOf(id)) <= SumOver(connected, SessionsOf(id))
    /\ \A s \in Sessions : disconnected[s] <= 1

\* what holds: a session causes at most one event of each kind, its
\* device_disconnected event only after its entry was put into the registry,
\* and its device_connected event is emitted unless its thread is still
\* between the with block of register_client and the emit
C36_DisconnectedOnceAfterPut ==
    \A s \in Sessions :
        /\ disconnected[s] <= 1
        /\ connected[s] <= 1
        /\ disconnected[s] > connected[s] => pc[s] = "connected"

(***************************************************************************)
(* C37.  The identifier of a session is assigned at most once and never     *)
(* changes.  A chunk of identity shape that arrives after the identifier    *)
(* is set is handled as telemetry: it gives rise to a data_received event   *)
(* and to no registration, no 0x01 byte and no device_connected event; so   *)
(* a session is sent 0x01 at most once and causes at most one               *)
(* device_connected event.  Every entry of the registry maps the            *)
(* identifier of its session.                                               *)
(***************************************************************************)
\* s receives, in this step, a chunk of identity shape while it has its identifier
LateIdentity(s) ==
    /\ imei[s] # NoImei
    /\ Len(rx'[s]) = Len(rx[s]) + 1
    /\ is_identity(Chunk[rx'[s][Len(rx'[s])]])

\* the 0x01 bytes written to s
ImeiAcks(s) == SelectSeq(sent[s], LAMBDA m : m = imei_ack)

C37_IdentityAssignedOnce ==
    /\ [](\A s \in Sessions : Len(ImeiAcks(s)) <= 1 /\ connected[s] <= 1)
    /\ [](\A i \in 1..Len(client_handlers) :
            imei[client_handlers[i].handler] = client_handlers[i].imei)
    /\ [][\A s \in Sessions : imei[s] # NoImei => imei'[s] = imei[s]]_vars
    /\ [][\A s \in Sessions :
            LateIdentity(s)
            => /\ pc'[s] = "loop"
               /\ Len(data_events'[s]) = Len(data_events[s]) + 1
               /\ ~is_avl(data_events'[s][Len(data_events'[s])].decoded)
               /\ UNCHANGED <<client_handlers, sent, connected, imei>>]_vars

\* a session has received its identity twice, was acknowledged and announced
\* once, and the second chunk was reported as data
C37_Witness ==
    \E s \in Sessions :
        /\ rx[s] = <<"id_a", "id_a">>
        /\ imei[s] = Utf8Decode(IMEI_A)
        /\ ImeiAcks(s) = <<imei_ack>>
        /\ connected[s] = 1
        /\ Len(data_events[s]) = 1
        /\ data_events[s][1].decoded.type = "unknown"
        /\ Has(client_handlers, imei[s]) /\ Get(client_handlers, imei[s]) = s

(***************************************************************************)
(* C38.  The registry lock cannot deadlock.  Only send_command_to_device    *)
(* holds client_lock over more than its with block, and the thread that     *)
(* holds it takes no with block of its own; while the lock is held no       *)
(* other with block runs and the registry does not change; the lock is      *)
(* released when handler.send_command returns and when its transport        *)
(* write raises.  Under a fair scheduler, and given that a transport        *)
(* write returns or raises, every register_client, unregister_client,       *)
(* kick_device and send_command_to_device that has begun completes, and so  *)
(* does the stop sequence of the server.                                    *)
(***************************************************************************)
\* two devices of one identifier, and an operator who kicks or sends
Contended ==
    [sessions |-> NumSessions,
     first |-> [s \in 1..NumSessions |-> {"id_a"}],
     chunks |-> {},
     frames |-> MaxFrames - 2,
     ops |-> MaxOps,
     operator |-> {"kick", "send"},
     loud |-> FALSE,
     settings |-> {},
     decoded |-> Decoded]

InitContended ==
    /\ env = Contended
    /\ call = NoCall
    /\ ServerInit

\* the steps of NextReconnect without the failures of the socket and of the
\* acknowledgment, with kick_device
NextContended ==
    \/ start_server
    \/ run_begin
    \/ run_setup_ok
    \/ run_loop
    \/ \E s \in Sessions : run_accept(s)
    \/ run_accept_timeout
    \/ run_snapshot
    \/ run_stop_next
    \/ run_close
    \/ run_report
    \/ \E s \in Sessions : run_start(s)
    \/ \E s \in Sessions : run_while(s)
    \/ \E s \in Sessions, chunk \in FirstChunks : recv_first(s, chunk)
    \/ \E s \in Sessions : recv_eof(s)
    \/ \E s \in Sessions : register_client(s)
    \/ \E s \in Sessions : register_client_emit(s)
    \/ \E s \in Sessions : ack_imei(s)
    \/ \E t \in Threads : stop_check(t)
    \/ \E t \in Threads : stop_clear(t)
    \/ \E t \in Threads : unregister_client(t)
    \/ \E t \in Threads : unregister_client_emit(t)
    \/ \E t \in Threads : stop_close(t)
    \/ \E id \in Imeis : kick_device_found(id)
    \/ \E id \in Imeis : send_command_found(id)
    \/ \E command_str \in Commands : send_command(command_str)
    \/ send_command_raises
    \/ stop_server
    \/ stop_server_returns

\* every thread that is inside register_client, stop or send_command_to_device
\* takes its next step when it can; a transport write returns or raises
FairThreads ==
    /\ \A s \in Sessions : WF_vars(register_client(s))
    /\ \A t \in Threads :
         /\ WF_vars(stop_check(t))
         /\ WF_vars(stop_clear(t))
         /\ WF_vars(unregister_client(t))
         /\ WF_vars(unregister_client_emit(t))
         /\ WF_vars(stop_close(t))
    /\ WF_vars(send_command_raises \/ \E command_str \in Commands : send_command(command_str))

SpecContended == InitContended /\ [][NextContended]_vars /\ FairServer /\ FairThreads

\* no thread is inside register_client, unregister_client, stop, kick_device,
\* send_command_to_device or the stop sequence of the server
NoneInside ==
    /\ client_lock = None
    /\ \A s \in Sessions : pc[s] # "register"
    /\ \A t \in Threads : stop_pc[t] = "idle"
    /\ gui_pc \notin {"send", "kick"}
    /\ srv_pc # "stopping"

StreamChunks == {"avl", "avl_avl", "avl_head", "avl_tail"}

\* one device sends its identity with an AVL frame behind it, then frames whole,
\* doubled and split
Unframed ==
    [sessions |-> NumSessions - 1,
     first |-> [s \in 1..NumSessions |-> {"id_a", "id_avl"}],
     chunks |-> StreamChunks,
     frames |-> MaxFrames + 1,
     ops |-> 0,
     operator |-> {},
     loud |-> TRUE,
     settings |-> {},
     decoded |-> [ avl |-> decode_packet(Chunk.avl),
                   avl_avl |-> decode_packet(Chunk.avl_avl),
                   avl_head |-> decode_packet(Chunk.avl_head),
                   avl_tail |-> decode_packet(Chunk.avl_tail) ]]

InitStream ==
    /\ env = Unframed
    /\ call = NoCall
    /\ ServerInit

NextStream ==
    \/ start_server
    \/ run_begin
    \/ run_setup_ok
    \/ run_loop
    \/ \E s \in Sessions : run_accept(s)
    \/ run_accept_timeout
    \/ \E s \in Sessions : run_start(s)
    \/ \E s \in Sessions : run_while(s)
    \/ \E s \in Sessions, chunk \in {"id_a", "id_avl"} : recv_first(s, chunk)
    \/ \E s \in Sessions, chunk \in StreamChunks : recv_telemetry(s, chunk)
    \/ \E s \in Sessions : recv_eof(s)
    \/ \E s \in Sessions : register_client(s)
    \/ \E s \in Sessions : register_client_emit(s)
    \/ \E s \in Sessions : ack_imei(s)
    \/ \E s \in Sessions : ack_record(s)
    \/ \E s \in Sessions, loud \in BOOLEAN : ack_raises(s, loud)
    \/ \E t \in Threads : stop_check(t)
    \/ \E t \in Threads : stop_clear(t)
    \/ \E t \in Threads : unregister_client(t)
    \/ \E t \in Threads : unregister_client_emit(t)
    \/ \E t \in Threads : stop_close(t)

SpecStream == InitStream /\ [][NextStream]_vars

\* the chunks s received that decode to an AVL packet on their own, the first
\* chunk left out
AvlChunks(s) ==
    IF rx[s] = << >> THEN << >>
    ELSE SelectSeq(Tail(rx[s]), LAMBDA c : is_avl(env.decoded[c]))

C39_ChunkIsOneFrame ==
    \A s \in Sessions :
        /\ imei[s] # NoImei => Len(data_events[s]) = Len(rx[s]) - 1
        /\ \A i \in 1..Len(data_events[s]) :
             /\ data_events[s][i].raw = rx[s][i + 1]
             /\ data_events[s][i].decoded = env.decoded[rx[s][i + 1]]
             /\ rx[s][i + 1] \in {"avl_avl", "avl_head"}
                => data_events[s][i].decoded.type = "parsing_error"
             /\ rx[s][i + 1] = "avl_tail" => ~is_avl(data_events[s][i].decoded)
        /\ LET acks == SelectSeq(sent[s], LAMBDA m : m # imei_ack)
               frames == AvlChunks(s)
           IN  /\ \A i \in 1..Len(frames) : frames[i] = "avl"
               /\ Len(acks) <= Len(frames)
               /\ Len(frames) <= Len(acks) + 1
               /\ \A i \in 1..Len(acks) : acks[i] = record_ack(Chunk[frames[i]][10])
               /\ pc[s] \in {"loop", "recv"} => Len(acks) = Len(frames)

\* the identity came with an AVL frame behind it, then came two frames in one
\* chunk, then one frame: only the last was acknowledged
C39_Witness ==
    \E s \in Sessions :
        /\ rx[s] = <<"id_avl", "avl_avl", "avl">>
        /\ sent[s] = <<imei_ack, record_ack(1)>>
        /\ Len(data_events[s]) = 2
        /\ data_events[s][1].decoded.type = "parsing_error"
        /\ data_events[s][2].decoded.type = "Codec 8"

(***************************************************************************)
(* C40.  In the datagram server, a command for an identifier goes to the    *)
(* address of the most recent identity packet of that identifier, and an    *)
(* address is mapped to the identifier of the latest identity packet        *)
(* received from it.  (An identity packet is one the loop takes for one:    *)
(* more than 17 bytes, 0x00 0x0F, 15 bytes of text.)                        *)
(***************************************************************************)
\* the identifier a received packet carries, NoImei when it is no identity packet
Carried(packet) ==
    LET data == Chunk[packet.data]
    IN  IF is_imei_packet(data) /\ Utf8Valid(Slice(data, 2, 17))
        THEN Utf8Decode(Slice(data, 2, 17))
        ELSE NoImei

\* the places in udp_rx of the identity packets of id; of those from addr
PacketsOf(id) == {i \in 1..Len(udp_rx) : Carried(udp_rx[i]) = id}
PacketsFrom(addr) ==
    {i \in 1..Len(udp_rx) : udp_rx[i].addr = addr /\ Carried(udp_rx[i]) # NoImei}

\* the greatest, the least member of a set of numbers that is not empty
Latest(S) == CHOOSE i \in S : \A j \in S : j <= i
Earliest(S) == CHOOSE i \in S : \A j \in S : i <= j

C40_SendToLatestAddress ==
    /\ [][udp_sent' # udp_sent /\ SendsCommand
          => /\ PacketsOf(send_imei) # {}
             /\ target_addr = udp_rx[Latest(PacketsOf(send_imei))].addr]_vars
    /\ [](\A addr \in Addresses :
            PacketsFrom(addr) # {}
            => GetOr(clients, addr, NoImei) = Carried(udp_rx[Latest(PacketsFrom(addr))]))

\* what the server does: an address keeps the identifier of the first identity
\* packet received from it, and a command goes to the address that was
\* recorded first among those mapped to the identifier
C40_SendToFirstRecorded ==
    /\ [][udp_sent' # udp_sent /\ SendsCommand
          => /\ Recorded(send_imei) # {}
             /\ \E i \in 1..Len(clients) :
                  /\ clients[i].addr = target_addr
                  /\ clients[i].imei = send_imei
                  /\ \A j \in 1..(i - 1) : clients[j].imei # send_imei]_vars
    /\ [](\A addr \in Addresses :
            /\ Mapped(clients, addr) <=> PacketsFrom(addr) # {}
            /\ PacketsFrom(addr) # {}
               => GetOr(clients, addr, NoImei)
                     = Carried(udp_rx[Earliest(PacketsFrom(addr))]))

====
